---------------------------- MODULE Spec2Model ----------------------------
(***************************************************************************)
(* A model of the RadioManager library (lib/RadioManager/src): the         *)
(* SimpleCha2 secure channel, the fragmentation / reassembly engine, the   *)
(* paired-device directory, the pairing state machine and the loop()       *)
(* orchestrator, for two devices X and Y that share one radio medium.      *)
(*                                                                         *)
(* Bytes are the integers 0..255, a String or a Bytes vector is a sequence *)
(* of bytes (characters are their ASCII codes).  A 32-byte key is          *)
(* abstracted to one number 0..250 (0 stands for the all-zero key); on the *)
(* wire it is the 32-byte packet KeyBytes(k).  The external primitives     *)
(* (X25519 of mbedtls, the ChaCha keystream, the RF24 transceiver) are     *)
(* modelled by what they compute: a Diffie-Hellman exponentiation in a     *)
(* small prime field, a keystream that is a function of key and nonce      *)
(* XORed onto the text, and a radio with 5 address-matched reading pipes,  *)
(* a 3-packet receive FIFO and a write that succeeds iff it is             *)
(* acknowledged.                                                           *)
(***************************************************************************)
EXTENDS Integers, Sequences, FiniteSets, TLC

\* ------------------------------------------------------------------------
\* Program constants
\* ------------------------------------------------------------------------
KEY_SIZE == 32
NONCE_SIZE == 12
COUNTER_SIZE == 4
IV_SIZE == NONCE_SIZE - COUNTER_SIZE
MAX_CHANNELS == 5
MAX_PACKET_SIZE == 32
NRF_BUF_SIZE == 32
HEADER_SIZE == 3
MAX_MSG_SIZE == 2048
MAX_PACKETS_RCV == 100
MAX_MAILBOX_MSG == 3
RECEIVE_TIMEOUT == 1000
PAIRING_TIMEOUT == 10000
PAIRING_INTERVAL == 250
PAIRING_LISTEN_TIME == 5000
DATA_CHANNEL == 108
NO_CHANNEL == 255
START_CODE == 77
CONTINUE_CODE == 67
PAYLOAD_SIZE == MAX_PACKET_SIZE - HEADER_SIZE

\* The radio's receive FIFO holds three packets (nRF24L01).
RX_FIFO_SIZE == 3

\* ------------------------------------------------------------------------
\* Bounds of the model
\* ------------------------------------------------------------------------
\* IV seeds 0..MaxIvSeed stand for the random 8-byte IVs of generateIV.
MaxIvSeed == 3
\* encrypt / decrypt calls explored on the two stand-alone secure channels,
\* and the IV seeds they draw from
MaxChaCalls == 4
MaxChaSeed == 1

\* ------------------------------------------------------------------------
\* Bytes, strings
\* ------------------------------------------------------------------------
Byte == 0..255

Min(a, b) == IF a < b THEN a ELSE b

\* n copies of byte b
Fill(n, b) == [i \in 1..n |-> b]

\* s[from..to) with 0-based positions, as String::substring and the vector
\* range constructors take them; positions past the end are clipped.
Slice(s, from, to) ==
    LET t == Min(to, Len(s))
    IN  IF from >= t THEN <<>> ELSE [i \in 1..(t - from) |-> s[from + i]]

RECURSIVE DecStr(_)
\* String(n) for an unsigned integer: its decimal digits
DecStr(n) == IF n < 10 THEN <<48 + n>> ELSE DecStr(n \div 10) \o <<48 + (n % 10)>>

isAlphaNumeric(c) ==
    \/ c \in 48..57
    \/ c \in 65..90
    \/ c \in 97..122

RECURSIVE BitXor(_, _, _)
BitXor(a, b, n) ==
    IF n = 0 THEN 0
    ELSE (((a % 2) + (b % 2)) % 2) + 2 * BitXor(a \div 2, b \div 2, n - 1)

Xor8(a, b) == BitXor(a, b, 8)

\* The two reserved pairing addresses "CFGTX" and "CFGRX"
CFGTX == <<67, 70, 71, 84, 88>>
CFGRX == <<67, 70, 71, 82, 88>>

\* ------------------------------------------------------------------------
\* pad / unpad, checkValidAddr
\* ------------------------------------------------------------------------
pad(payload, paddingSize) ==
    IF Len(payload) < paddingSize
    THEN payload \o Fill(paddingSize - Len(payload), 0)
    ELSE IF Len(payload) > paddingSize
    THEN Slice(payload, 0, paddingSize)
    ELSE payload

RECURSIVE unpad(_)
unpad(payload) ==
    IF payload # <<>> /\ payload[Len(payload)] = 0
    THEN unpad(Slice(payload, 0, Len(payload) - 1))
    ELSE payload

checkValidAddr(addr) ==
    /\ Len(addr) = 5
    /\ addr[1] >= 48 /\ addr[1] <= 53
    /\ \A i \in 2..5 : isAlphaNumeric(addr[i])

\* ------------------------------------------------------------------------
\* X25519 (mbedtls), abstracted to Diffie-Hellman in the field of DH_P
\* elements with generator DH_G: public = G^private, shared = peer^private.
\* An all-zero peer key makes the derivation fail.
\* ------------------------------------------------------------------------
DH_P == 251
DH_G == 6

RECURSIVE ModExp(_, _)
ModExp(b, e) == IF e = 0 THEN 1 ELSE (b * ModExp(b, e - 1)) % DH_P

X25519Public(priv) == ModExp(DH_G, priv)

\* The value X25519(private, peerPublic); 0 for the all-zero peer key.
X25519(priv, pub) == IF pub % DH_P = 0 THEN 0 ELSE ModExp(pub % DH_P, priv)

generateX25519SharedKey(peerPublicKey, privateKey) ==
    IF peerPublicKey % DH_P = 0
    THEN [ok |-> FALSE, sharedKey |-> 0]
    ELSE [ok |-> TRUE, sharedKey |-> X25519(privateKey, peerPublicKey)]

\* A key as the 32 bytes that travel in a packet, and a key read from the
\* first KEY_SIZE bytes of a packet (memcpy).
KeyBytes(k) == Fill(KEY_SIZE, k)
KeyOfBytes(b) == IF b = <<>> THEN 0 ELSE b[1]

\* ------------------------------------------------------------------------
\* SimpleCha2
\* ------------------------------------------------------------------------
IvSeeds == 0..MaxIvSeed

\* generateIV: the 8 random bytes drawn for seed s
generateIV(s) == [i \in 1..IV_SIZE |-> (29 * s + 3 * i) % 256]

\* the 32-bit counter as 4 little-endian bytes (memcpy on the ESP32)
CounterBytes(c) ==
    <<c % 256, (c \div 256) % 256, (c \div 65536) % 256, (c \div 16777216) % 256>>

createNonce(iv, counter) == iv \o CounterBytes(counter)

extractCounter(nonce) ==
    nonce[IV_SIZE + 1] + 256 * nonce[IV_SIZE + 2]
        + 65536 * nonce[IV_SIZE + 3] + 16777216 * nonce[IV_SIZE + 4]

RECURSIVE NonceMix(_, _)
NonceMix(nonce, j) ==
    IF j = 0 THEN 0 ELSE (j * nonce[j] + NonceMix(nonce, j - 1)) % 256

\* The i-th keystream byte of ChaCha under key and nonce.
Keystream(key, nonce, i) == (15 * key + NonceMix(nonce, NONCE_SIZE) + 23 * i) % 256

\* ChaCha::encrypt and ChaCha::decrypt: the keystream XORed onto the text
ChaChaXor(key, nonce, text) ==
    [i \in 1..Len(text) |-> Xor8(text[i], Keystream(key, nonce, i))]

\* A SimpleCha2 object
SimpleCha2(initialKey) ==
    [key |-> initialKey, encryptCounter |-> 0, decryptCounter |-> 0]

setKey(cha, newKey) ==
    [key |-> newKey, encryptCounter |-> 0, decryptCounter |-> 0]

\* encrypt: the object after the call and the bytes returned.  The counter is
\* a uint32_t; the numbers of calls explored stay far below its wrap.
encrypt(cha, plaintext, seed) ==
    LET counter == cha.encryptCounter + 1
        nonce   == createNonce(generateIV(seed), counter)
    IN  [cha |-> [cha EXCEPT !.encryptCounter = counter],
         out |-> nonce \o ChaChaXor(cha.key, nonce, plaintext)]

\* a decrypt that also accepts the counter it accepted last
DecryptAcceptsEqual(receivedCounter, decryptCounter) == receivedCounter >= decryptCounter

DecryptAccepts(receivedCounter, decryptCounter) == receivedCounter > decryptCounter

\* decrypt: the object after the call and the bytes returned (empty: rejected)
decrypt(cha, ciphertext) ==
    IF Len(ciphertext) < NONCE_SIZE
    THEN [cha |-> cha, out |-> <<>>]
    ELSE LET nonce == Slice(ciphertext, 0, NONCE_SIZE)
             receivedCounter == extractCounter(nonce)
         IN  IF ~DecryptAccepts(receivedCounter, cha.decryptCounter)
             THEN [cha |-> cha, out |-> <<>>]
             ELSE [cha |-> [cha EXCEPT !.decryptCounter = receivedCounter],
                   out |-> ChaChaXor(cha.key, nonce,
                                     Slice(ciphertext, NONCE_SIZE, Len(ciphertext)))]

decryptToStr(cha, ciphertext) == decrypt(cha, ciphertext)


\* ------------------------------------------------------------------------
\* The state
\* ------------------------------------------------------------------------
\* dev[d]   : the RadioManager object of device d (its fields, by name)
\* radio[d] : the RF24 transceiver of device d
\* now      : the millisecond clock (millis())
\* ghost[d] : history kept for the statements below, never read by the code
\* env      : the environment: when the application starts a pairing, which
\*            device has run loop() at the current clock value, what was
\*            re-injected into the medium
\* cha, chaLog : two stand-alone SimpleCha2 objects and their call history
VARIABLES dev, radio, now, ghost, env, cha, chaLog

vars == <<dev, radio, now, ghost, env, cha, chaLog>>

Dev == {"X", "Y"}
Peer(d) == IF d = "X" THEN "Y" ELSE "X"

Channels == 0..(MAX_CHANNELS - 1)
Pipes == 1..MAX_CHANNELS

\* The radio_id each device is constructed with: "AAAA" and "BBBB"
RadioIdArg(d) == IF d = "X" THEN <<65, 65, 65, 65>> ELSE <<66, 66, 66, 66>>

\* The key pair generateX25519KeyPair draws in the constructor
PrivateKeyOf(d) == IF d = "X" THEN 3 ELSE 5

\* No SimpleCha2 object (tempCha = nullptr)
NoCha == [key |-> 0, encryptCounter |-> 0, decryptCounter |-> 0, null |-> TRUE]

\* PairedDevice(): a zeroed record; the object is a zero-initialised global
EmptySlot ==
    [addr |-> <<>>, mailbox |-> <<>>, sharedKey |-> 0, publicKey |-> 0,
     chaObject |-> SimpleCha2(0)]

RECURSIVE AdjustRadioId(_)
\* the constructor's left-padding with '0' and truncation to 4 characters
AdjustRadioId(id) ==
    IF Len(id) < 4 THEN AdjustRadioId(<<48>> \o id)
    ELSE IF Len(id) > 4 THEN Slice(id, 0, 4) ELSE id

\* RadioManager::RadioManager
RadioManager(d) ==
    [isEnabled |-> FALSE, currentState |-> "IDLE",
     radioID |-> AdjustRadioId(RadioIdArg(d)),
     pairedDevices |-> [i \in Channels |-> EmptySlot],
     rxBuffer |-> <<>>, lastReceiveTime |-> 0,
     expectedFragments |-> 0, receivedFragments |-> 0,
     lastPairingAttempt |-> 0, pairingStartTime |-> 0,
     isUnpairReq |-> FALSE, gotPubKey |-> FALSE, sentPubKey |-> FALSE,
     gotAck |-> FALSE, sentAck |-> FALSE,
     tempPublicKey |-> 0, tempSharedKey |-> 0, tempPayload |-> <<>>,
     pairingChannel |-> 0,
     outgoingMsg |-> <<>>, outgoingMsgIndex |-> 0, outgoingTargetAddr |-> <<>>,
     currentMsgStatus |-> FALSE, status |-> 0,
     publicKey |-> X25519Public(PrivateKeyOf(d)), privateKey |-> PrivateKeyOf(d),
     tempCha |-> NoCha, crashed |-> FALSE]

\* RF24 after construction: not listening, no pipe opened by the program
RF24 ==
    [listening |-> FALSE, channel |-> 76,
     readPipe |-> [p \in Pipes |-> <<>>], writePipe |-> <<>>, fifo |-> <<>>]

NoGhost ==
    [sendSeq |-> 0, sent |-> <<>>, aborted |-> {},
     rxPkts |-> <<>>, deposits |-> <<>>, lost |-> {}, reads |-> <<>>,
     wroteListening |-> FALSE, unheard |-> FALSE]

NoEnv ==
    [ticked |-> [d \in Dev |-> FALSE], startAt |-> [d \in Dev |-> -1],
     started |-> [d \in Dev |-> FALSE], replays |-> 0, calls |-> 0,
     slotsAtStart |-> [d \in Dev |-> <<>>]]

\* The world an operation works on
World == [dev |-> dev, radio |-> radio, now |-> now, ghost |-> ghost]

SetWorld(w) ==
    /\ dev' = w.dev
    /\ radio' = w.radio
    /\ ghost' = w.ghost

\* ------------------------------------------------------------------------
\* RF24 (external transceiver), by its interface
\* ------------------------------------------------------------------------
setChannel(w, d, c) == [w EXCEPT !.radio[d].channel = c]
openReadingPipe(w, d, p, addr) == [w EXCEPT !.radio[d].readPipe[p] = addr]
openWritingPipe(w, d, addr) == [w EXCEPT !.radio[d].writePipe = addr]
startListening(w, d) ==
    [w EXCEPT !.radio[d].listening = TRUE, !.ghost[d].unheard = FALSE]
stopListening(w, d) == [w EXCEPT !.radio[d].listening = FALSE]
available(w, d) == w.radio[d].fifo # <<>>
availablePipe(w, d) == w.radio[d].fifo[1].pipe

\* radio.read: the packet at the head of the FIFO
readPacket(w, d) == w.radio[d].fifo[1]
popPacket(w, d) == [w EXCEPT !.radio[d].fifo = Tail(@)]

\* The pipe of receiver e that matches the address a, 0 if none
MatchingPipe(w, e, a) ==
    IF \E p \in Pipes : w.radio[e].readPipe[p] = a
    THEN CHOOSE p \in Pipes :
            /\ w.radio[e].readPipe[p] = a
            /\ \A q \in Pipes : w.radio[e].readPipe[q] = a => p <= q
    ELSE 0

\* Who acknowledges a packet that d writes
Receivers(w, d) ==
    {e \in Dev \ {d} :
        /\ ~w.radio[d].listening
        /\ w.radio[d].writePipe # <<>>
        /\ w.radio[e].listening
        /\ w.radio[e].channel = w.radio[d].channel
        /\ Len(w.radio[e].fifo) < RX_FIFO_SIZE
        /\ MatchingPipe(w, e, w.radio[d].writePipe) # 0}

\* radio.write(buf, len): the first len bytes, zero-filled to the static
\* payload size, reach the listening device whose pipe matches; the result
\* is true iff such a device acknowledged.
\* The history keeps whether a write was ever made while the own radio was
\* listening, and whether a write was made since the last startListening.
write(w, d, buf, len, tag) ==
    LET rcv == Receivers(w, d)
        w0 == [w EXCEPT !.ghost[d].wroteListening = @ \/ w.radio[d].listening,
                        !.ghost[d].unheard = TRUE]
    IN  IF rcv = {} THEN [w |-> w0, ok |-> FALSE]
        ELSE LET e == CHOOSE x \in rcv : TRUE
                 pkt == [pipe |-> MatchingPipe(w, e, w.radio[d].writePipe),
                         data |-> pad(Slice(buf, 0, len), MAX_PACKET_SIZE),
                         tag |-> tag]
             IN  [w |-> [w0 EXCEPT !.radio[e].fifo = Append(@, pkt)], ok |-> TRUE]

\* what a packet is tagged with in the history: the sending device, the number
\* of the message, the number of the fragment, whether it was re-injected
NoTag == [from |-> "", seq |-> 0, frag |-> 0, replay |-> FALSE]

\* ------------------------------------------------------------------------
\* Device directory
\* ------------------------------------------------------------------------
getPairedAddr(r, channel) ==
    IF channel \in Channels THEN r.pairedDevices[channel].addr ELSE <<>>

getPairedUID(r, channel) ==
    IF channel \in Channels THEN Slice(r.pairedDevices[channel].addr, 1, 5) ELSE <<>>

\* the lowest channel of a set, or 255 when there is none
FirstChannel(S) ==
    IF S = {} THEN NO_CHANNEL ELSE CHOOSE i \in S : \A j \in S : i <= j

getPairedChannel(r, uid) ==
    FirstChannel({i \in Channels : getPairedUID(r, i) = uid})

getAvailableChannel(r) ==
    FirstChannel({i \in Channels : r.pairedDevices[i].addr = <<>>})

clearPairedAddr(w, d, channel) ==
    IF channel \in Channels
    THEN [w EXCEPT !.dev[d].pairedDevices[channel] =
            [addr |-> <<>>, mailbox |-> <<>>, sharedKey |-> 0, publicKey |-> 0,
             chaObject |-> setKey(@.chaObject, 0)]]
    ELSE w

setDevicePublicKey(w, d, channel, newPublicKey) ==
    IF channel < MAX_CHANNELS
    THEN [w EXCEPT !.dev[d].pairedDevices[channel].publicKey = newPublicKey]
    ELSE w

setDeviceSharedKey(w, d, channel, newSharedKey) ==
    IF channel < MAX_CHANNELS
    THEN [w EXCEPT !.dev[d].pairedDevices[channel].sharedKey = newSharedKey,
                   !.dev[d].pairedDevices[channel].chaObject =
                        setKey(@, newSharedKey)]
    ELSE w

\* The address the reading pipe of a slot is opened on by setPairedAddr
\* and begin(): String(channel) + radioID
SlotPipeAddr(r, channel) == DecStr(channel) \o r.radioID

\* The address initRadio opens pipe i + 1 on: String(i + 1) + radioID
InitPipeAddr(r, i) == DecStr(i + 1) \o r.radioID

\* setPairedAddr(address, channel, publicKey); hasKey = FALSE is the call
\* with a null key pointer
setPairedAddr(w, d, address, channel, hasKey, publicKey) ==
    IF channel \in Channels
    THEN LET gen == generateX25519SharedKey(publicKey, w.dev[d].privateKey)
         IN  IF hasKey /\ ~gen.ok THEN [w |-> w, ok |-> FALSE]
             ELSE LET w1 == clearPairedAddr(w, d, channel)
                      w2 == [w1 EXCEPT !.dev[d].pairedDevices[channel].addr = address]
                      w3 == IF hasKey
                            THEN setDeviceSharedKey(
                                     setDevicePublicKey(w2, d, channel, publicKey),
                                     d, channel, gen.sharedKey)
                            ELSE w2
                  IN  [w |-> openReadingPipe(w3, d, channel + 1,
                                             SlotPipeAddr(w3.dev[d], channel)),
                       ok |-> TRUE]
    ELSE [w |-> w, ok |-> FALSE]

clearPairedUID(w, d, uid) ==
    LET c == getPairedChannel(w.dev[d], uid)
    IN  IF c = NO_CHANNEL THEN [w |-> w, ok |-> FALSE]
        ELSE [w |-> clearPairedAddr(w, d, c), ok |-> TRUE]

setPersonalKeys(w, d, publicKey, privateKey) ==
    [w EXCEPT !.dev[d].publicKey = publicKey, !.dev[d].privateKey = privateKey]

setPairedDeviceKeys(w, d, channel, publicKey) ==
    IF channel < MAX_CHANNELS
    THEN LET gen == generateX25519SharedKey(publicKey, w.dev[d].privateKey)
         IN  IF ~gen.ok THEN [w |-> w, ok |-> FALSE]
             ELSE [w |-> [w EXCEPT
                        !.dev[d].pairedDevices[channel].publicKey = publicKey,
                        !.dev[d].pairedDevices[channel].sharedKey = gen.sharedKey,
                        !.dev[d].pairedDevices[channel].chaObject =
                            setKey(@, publicKey)],
                   ok |-> TRUE]
    ELSE [w |-> w, ok |-> FALSE]

clearMessages(w, d, channel) ==
    IF channel < MAX_CHANNELS
    THEN [w EXCEPT !.dev[d].pairedDevices[channel].mailbox = <<>>]
    ELSE w

RECURSIVE OpenAllPipes(_, _, _)
OpenAllPipes(w, d, i) ==
    IF i = MAX_CHANNELS THEN w
    ELSE OpenAllPipes(openReadingPipe(w, d, i + 1, InitPipeAddr(w.dev[d], i)),
                      d, i + 1)

initRadio(w, d) ==
    startListening(OpenAllPipes(setChannel(w, d, DATA_CHANNEL), d, 0), d)

RECURSIVE OpenPairedPipes(_, _, _)
OpenPairedPipes(w, d, i) ==
    IF i = MAX_CHANNELS THEN w
    ELSE OpenPairedPipes(
            IF w.dev[d].pairedDevices[i].addr # <<>>
            THEN openReadingPipe(w, d, i + 1, SlotPipeAddr(w.dev[d], i))
            ELSE w,
            d, i + 1)

\* radio.begin() of the transceiver library: the chip is configured anew --
\* default channel, transmit mode (not listening), both FIFOs flushed; the
\* pipe address registers are left as they are.
radioBegin(w, d) ==
    [w EXCEPT !.radio[d].listening = FALSE,
              !.radio[d].channel = RF24.channel,
              !.radio[d].fifo = <<>>]

\* begin(), the radio answering (radio.begin() true)
begin(w, d) ==
    LET w1 == [radioBegin(w, d) EXCEPT !.dev[d].isEnabled = TRUE]
    IN  startListening(OpenPairedPipes(setChannel(w1, d, DATA_CHANNEL), d, 0), d)


\* ------------------------------------------------------------------------
\* Messages: sendMsg, sendMsgToAddr, sendData, receiveData, readMsg
\* ------------------------------------------------------------------------
encryptMessage(w, d, channel, message, seed) ==
    LET e == encrypt(w.dev[d].pairedDevices[channel].chaObject, message, seed)
    IN  [w |-> [w EXCEPT !.dev[d].pairedDevices[channel].chaObject = e.cha],
         out |-> e.out]

decryptMessage(w, d, channel, encryptedMessage) ==
    LET e == decrypt(w.dev[d].pairedDevices[channel].chaObject, encryptedMessage)
    IN  [w |-> [w EXCEPT !.dev[d].pairedDevices[channel].chaObject = e.cha],
         out |-> e.out]

\* *status = v through the pointer the caller passed (a uint8_t)
SetStatus(w, d, hasStatus, v) ==
    IF hasStatus THEN [w EXCEPT !.dev[d].status = v % 256] ELSE w

\* the packed PacketHeader: code, index as 2 little-endian bytes
HeaderBytes(code, index) == <<code, index % 256, (index \div 256) % 256>>

\* an index that counts the fragments up from 0
FragmentIndexCountUp(msgSize, outgoingMsgIndex) == outgoingMsgIndex \div PAYLOAD_SIZE

\* the value of header.index for the fragment that starts at outgoingMsgIndex
FragmentIndex(msgSize, outgoingMsgIndex) ==
    LET totalFragments == (msgSize + PAYLOAD_SIZE - 1) \div PAYLOAD_SIZE
        remainingSize  == msgSize - outgoingMsgIndex
    IN  IF outgoingMsgIndex = 0 THEN totalFragments - 1
        ELSE IF remainingSize <= PAYLOAD_SIZE THEN 0
        ELSE totalFragments - 1 - (outgoingMsgIndex \div PAYLOAD_SIZE)

\* a write failure that is only recorded: the transfer goes on
WriteFailedIgnored(w, d) ==
    [w EXCEPT !.ghost[d].aborted = @ \cup {w.ghost[d].sendSeq}]

\* radio.write returned false in sendData: the transfer is given up
WriteFailed(w, d) ==
    LET w1 == startListening(
                  [w EXCEPT !.dev[d].currentState = "IDLE",
                            !.ghost[d].aborted = @ \cup {w.ghost[d].sendSeq}],
                  d)
    IN  SetStatus(w1, d, w.dev[d].currentMsgStatus, -1)

sendData(w, d) ==
    LET r == w.dev[d]
        msgSize == Len(r.outgoingMsg)
    IN  IF r.outgoingMsgIndex < msgSize
        THEN LET remainingSize == msgSize - r.outgoingMsgIndex
                 packetSize == Min(PAYLOAD_SIZE, remainingSize)
                 code == IF r.outgoingMsgIndex = 0 THEN START_CODE ELSE CONTINUE_CODE
                 index == FragmentIndex(msgSize, r.outgoingMsgIndex) % 65536
                 packet == pad(HeaderBytes(code, index)
                               \o Slice(r.outgoingMsg, r.outgoingMsgIndex,
                                        r.outgoingMsgIndex + packetSize),
                               MAX_PACKET_SIZE)
                 tag == [from |-> d, seq |-> w.ghost[d].sendSeq,
                         frag |-> r.outgoingMsgIndex \div PAYLOAD_SIZE, replay |-> FALSE]
                 wr == write(w, d, packet, HEADER_SIZE + packetSize, tag)
             IN  IF ~wr.ok
                 THEN WriteFailed(wr.w, d)
                 ELSE LET w1 == [wr.w EXCEPT !.dev[d].outgoingMsgIndex = @ + packetSize]
                      IN  IF w1.dev[d].outgoingMsgIndex >= msgSize
                          THEN SetStatus(
                                  startListening(
                                      [w1 EXCEPT !.dev[d].currentState = "IDLE"], d),
                                  d, r.currentMsgStatus, 1)
                          ELSE w1
        ELSE w

\* a device that never refuses a call for being busy
BusyNever(r) == FALSE

\* currentState != IDLE: the radio is in use by a transfer or a pairing
Busy(r) == r.currentState # "IDLE"

\* a size test that also refuses a message of exactly MAX_MSG_SIZE bytes
TooLongFromMax(msg) == Len(msg) >= MAX_MSG_SIZE

\* msg.size() > MAX_MSG_SIZE
TooLong(msg) == Len(msg) > MAX_MSG_SIZE

\* sendMsgToAddr(msg, targetAddr, status, encryption); hasStatus = FALSE is
\* the call with a null status pointer
sendMsgToAddr(w, d, msg, targetAddr, hasStatus, encryption, seed) ==
    IF ~w.dev[d].isEnabled
    THEN [w |-> SetStatus(w, d, hasStatus, -1), ok |-> FALSE]
    ELSE IF Busy(w.dev[d]) \/ TooLong(msg)
    THEN [w |-> SetStatus(w, d, hasStatus, -1), ok |-> FALSE]
    ELSE LET targetChannel ==
                 FirstChannel({i \in Channels :
                                 w.dev[d].pairedDevices[i].addr = targetAddr})
             enc == IF encryption /\ targetChannel # NO_CHANNEL
                    THEN encryptMessage(w, d, targetChannel, msg, seed)
                    ELSE [w |-> w, out |-> msg]
             w1 == [enc.w EXCEPT
                      !.dev[d].currentState = "TRANSMITTING",
                      !.dev[d].outgoingMsg = enc.out,
                      !.dev[d].outgoingMsgIndex = 0,
                      !.dev[d].outgoingTargetAddr = targetAddr,
                      !.dev[d].currentMsgStatus = hasStatus,
                      !.ghost[d].sendSeq = @ + 1,
                      !.ghost[d].sent = Append(@, [msg |-> msg, wire |-> enc.out,
                                                   encryption |-> encryption,
                                                   addr |-> targetAddr])]
             w2 == SetStatus(w1, d, hasStatus, 0)
             w3 == openWritingPipe(stopListening(w2, d), d, targetAddr)
         IN  [w |-> sendData(w3, d), ok |-> TRUE]

sendMsg(w, d, msg, channel, hasStatus, encryption, seed) ==
    IF ~w.dev[d].isEnabled
    THEN [w |-> SetStatus(w, d, hasStatus, -1), ok |-> FALSE]
    ELSE IF channel >= MAX_CHANNELS \/ w.dev[d].pairedDevices[channel].addr = <<>>
    THEN [w |-> SetStatus(w, d, hasStatus, -1), ok |-> FALSE]
    ELSE sendMsgToAddr(w, d, msg, w.dev[d].pairedDevices[channel].addr,
                       hasStatus, encryption, seed)

\* a push that makes room by removing the newest message
MailboxPushEvictNewest(mailbox, messageToStore) ==
    IF Len(mailbox) < MAX_MAILBOX_MSG
    THEN Append(mailbox, messageToStore)
    ELSE Append(Slice(mailbox, 0, Len(mailbox) - 1), messageToStore)

\* the mailbox after a completed message is stored
MailboxPush(mailbox, messageToStore) ==
    IF Len(mailbox) < MAX_MAILBOX_MSG
    THEN Append(mailbox, messageToStore)
    ELSE Append(Tail(mailbox), messageToStore)

\* whether a final fragment completes the message
ReassemblyComplete(receivedFragments, expectedFragments) ==
    receivedFragments = expectedFragments

\* What receiveData does when unpad leaves fewer than HEADER_SIZE bytes: the
\* header is copied from beyond the vector's end and the payload range
\* [begin + HEADER_SIZE, end) is reversed -- undefined behaviour.  The
\* outcomes kept: the program stops ("crash"), or the bytes still in the
\* vector's storage are read as the header and nothing is appended ("read").
UbOutcomes == {"crash", "read"}

receiveData(w, d, pipe_num, ub) ==
    IF ~w.dev[d].isEnabled THEN w
    ELSE
    LET channel == (pipe_num - 1) % 256
        pkt     == readPacket(w, d)
        w0      == popPacket(w, d)
        packet  == unpad(pkt.data)
        short   == Len(packet) < HEADER_SIZE
        code    == pkt.data[1]
        index   == pkt.data[2] + 256 * pkt.data[3]
        payload == Slice(packet, HEADER_SIZE, Len(packet))
    IN  IF short /\ ub = "crash"
        THEN [w0 EXCEPT !.dev[d].crashed = TRUE]
        ELSE
        LET r0 == w0.dev[d]
            \* a START fragment clears what came before
            started  == code = START_CODE
            buf1     == IF started THEN <<>> ELSE r0.rxBuffer
            pkts1    == IF started THEN <<>> ELSE w0.ghost[d].rxPkts
            exp1     == IF started THEN (index + 1) % 65536 ELSE r0.expectedFragments
            rcv1     == IF started THEN 0 ELSE r0.receivedFragments
            \* the fragment is added to the buffer
            adds     == rcv1 < MAX_PACKETS_RCV
            buf2     == IF adds THEN buf1 \o payload ELSE buf1
            pkts2    == IF adds THEN Append(pkts1, pkt) ELSE pkts1
            last2    == IF adds THEN w0.now ELSE r0.lastReceiveTime
            rcv2     == IF adds THEN rcv1 + 1 ELSE rcv1
            final    == index = 0
            complete == final /\ ReassemblyComplete(rcv2, exp1)
            paired   == channel \in Channels /\ r0.pairedDevices[channel].addr # <<>>
            dec      == decryptMessage(w0, d, channel, buf2)
            messageToStore == IF dec.out # <<>> THEN dec.out ELSE buf2
            w1 == IF complete /\ paired
                  THEN [dec.w EXCEPT
                          !.dev[d].pairedDevices[channel].mailbox =
                              MailboxPush(@, messageToStore),
                          !.ghost[d].deposits =
                              Append(@, [pkts |-> pkts2, rx |-> buf2,
                                         stored |-> messageToStore,
                                         channel |-> channel,
                                         full |-> Len(r0.pairedDevices[channel].mailbox)
                                                    >= MAX_MAILBOX_MSG])]
                  ELSE w0
            buf3  == IF final THEN <<>> ELSE buf2
            exp3  == IF final THEN 0 ELSE exp1
            rcv3  == IF final THEN 0 ELSE rcv2
            pkts3 == IF final THEN <<>> ELSE pkts2
            \* a partial message that has expired
            expired == buf3 # <<>> /\ w0.now - last2 > RECEIVE_TIMEOUT
        IN  [w1 EXCEPT
               !.dev[d].rxBuffer = IF expired THEN <<>> ELSE buf3,
               !.dev[d].expectedFragments = IF expired THEN 0 ELSE exp3,
               !.dev[d].receivedFragments = IF expired THEN 0 ELSE rcv3,
               !.dev[d].lastReceiveTime = last2,
               !.ghost[d].rxPkts = IF expired THEN <<>> ELSE pkts3,
               !.dev[d].currentState = "IDLE"]

isMsgAvailable(r, channel) ==
    IF channel < MAX_CHANNELS /\ r.pairedDevices[channel].addr # <<>>
    THEN Len(r.pairedDevices[channel].mailbox) ELSE 0

\* readMsg: the device after the call and the message returned
readMsg(w, d, channel) ==
    IF /\ channel < MAX_CHANNELS
       /\ w.dev[d].pairedDevices[channel].addr # <<>>
       /\ w.dev[d].pairedDevices[channel].mailbox # <<>>
    THEN [w |-> [w EXCEPT !.dev[d].pairedDevices[channel].mailbox = Tail(@)],
          out |-> Head(w.dev[d].pairedDevices[channel].mailbox)]
    ELSE [w |-> w, out |-> <<>>]


\* ------------------------------------------------------------------------
\* Pairing: startPairing, handlePairing
\* ------------------------------------------------------------------------
startPairing(w, d) ==
    IF ~w.dev[d].isEnabled THEN [w |-> w, ok |-> FALSE]
    ELSE IF ~Busy(w.dev[d])
    THEN LET w1 == [w EXCEPT
                      !.dev[d].currentState = "PAIRING_LISTEN",
                      !.dev[d].pairingStartTime = w.now,
                      !.dev[d].isUnpairReq = FALSE,
                      !.dev[d].tempPublicKey = 0,
                      !.dev[d].tempSharedKey = 0,
                      !.dev[d].tempPayload = <<>>,
                      !.dev[d].gotPubKey = FALSE,
                      !.dev[d].sentPubKey = FALSE,
                      !.dev[d].gotAck = FALSE,
                      !.dev[d].sentAck = FALSE,
                      !.dev[d].pairingChannel = getAvailableChannel(w.dev[d]),
                      !.dev[d].tempCha = SimpleCha2(0)]
         IN  [w |-> startListening(
                        openReadingPipe(setChannel(w1, d, DATA_CHANNEL), d, 1, CFGTX), d),
              ok |-> TRUE]
    ELSE [w |-> w, ok |-> FALSE]

\* The steps of handlePairing work on [w, ret]: ret is true once the
\* function has returned.
Returned(w) == [w |-> w, ret |-> TRUE]
Running(w) == [w |-> w, ret |-> FALSE]

\* currentState = IDLE; initRadio(); return;
\* a return to IDLE that leaves the radio as the pairing left it
EndPairingKeepsPipes(w, d) == Returned([w EXCEPT !.dev[d].currentState = "IDLE"])

\* currentState = IDLE; initRadio(); return;
EndPairing(w, d) == Returned(initRadio([w EXCEPT !.dev[d].currentState = "IDLE"], d))

\* Steps 1 of Listen and 2 of Transmit: the packet read is the peer's key
ReceivePubKey(w, d) ==
    LET pkt == readPacket(w, d)
        key == KeyOfBytes(Slice(pkt.data, 0, KEY_SIZE))
        gen == generateX25519SharedKey(key, w.dev[d].privateKey)
        shared == IF gen.ok THEN gen.sharedKey ELSE w.dev[d].tempSharedKey
    IN  [popPacket(w, d) EXCEPT
            !.dev[d].tempPublicKey = key,
            !.dev[d].gotPubKey = TRUE,
            !.dev[d].tempSharedKey = shared,
            !.dev[d].tempCha = setKey(@, shared)]

\* the pairing address String(pipeID) + radioID
PairingID(r, pipeID) == DecStr(pipeID % 256) \o r.radioID

ListenStep1(s, d) ==
    IF s.ret THEN s
    ELSE IF available(s.w, d) /\ ~s.w.dev[d].gotPubKey
    THEN Running(ReceivePubKey(s.w, d))
    ELSE s

ListenStep2(s, d) ==
    IF s.ret THEN s
    ELSE LET r == s.w.dev[d]
         IN  IF r.gotPubKey /\ ~r.sentPubKey
                /\ (s.w.now - r.lastPairingAttempt) > PAIRING_INTERVAL
             THEN LET w1 == openWritingPipe(
                                stopListening(
                                    [s.w EXCEPT !.dev[d].lastPairingAttempt = s.w.now], d),
                                d, CFGRX)
                      wr == write(w1, d, KeyBytes(r.publicKey), KEY_SIZE, NoTag)
                      w2 == IF wr.ok THEN [wr.w EXCEPT !.dev[d].sentPubKey = TRUE]
                            ELSE wr.w
                  IN  Running(startListening(openReadingPipe(w2, d, 1, CFGTX), d))
             ELSE s

\* Step 3 of Listen: the encrypted pairing address of the peer
ListenStep3(s, d) ==
    IF s.ret THEN s
    ELSE LET r == s.w.dev[d]
         IN  IF r.sentPubKey /\ ~r.gotAck /\ available(s.w, d)
             THEN LET packet == unpad(readPacket(s.w, d).data)
                      dec == decryptToStr(r.tempCha, packet)
                      w1 == [popPacket(s.w, d) EXCEPT !.dev[d].tempCha = dec.cha]
                      receivedAddr == dec.out
                  IN  IF checkValidAddr(receivedAddr)
                      THEN LET w2 == [w1 EXCEPT !.dev[d].gotAck = TRUE]
                               receivedUID == Slice(receivedAddr, 1, 5)
                               receivedPipe == Slice(receivedAddr, 0, 1)
                               cl == clearPairedUID(w2, d, receivedUID)
                           IN  IF cl.ok
                               THEN Running([cl.w EXCEPT !.dev[d].isUnpairReq = TRUE])
                               ELSE IF receivedPipe = <<48>>
                               THEN EndPairing(w2, d)
                               ELSE IF r.pairingChannel < MAX_CHANNELS
                               THEN Running(setPairedAddr(w2, d, receivedAddr,
                                                r.pairingChannel, TRUE,
                                                r.tempPublicKey).w)
                               ELSE EndPairing(w2, d)
                      ELSE Running(w1)
             ELSE s

\* Step 4 of Listen: the own encrypted pairing address is sent
ListenStep4(s, d, seed) ==
    IF s.ret THEN s
    ELSE LET r == s.w.dev[d]
         IN  IF r.gotAck /\ ~r.sentAck
             THEN LET w1 == openWritingPipe(
                                stopListening(
                                    [s.w EXCEPT !.dev[d].lastPairingAttempt = s.w.now], d),
                                d, CFGRX)
                      pipeID == IF r.isUnpairReq THEN 0 ELSE r.pairingChannel + 1
                      enc == encrypt(r.tempCha, PairingID(r, pipeID), seed)
                      payload == pad(enc.out, MAX_PACKET_SIZE)
                      w2 == [w1 EXCEPT !.dev[d].tempCha = enc.cha,
                                       !.dev[d].tempPayload = payload]
                      wr == write(w2, d, payload, Len(payload), NoTag)
                  IN  IF wr.ok
                      THEN EndPairing([wr.w EXCEPT !.dev[d].sentAck = TRUE], d)
                      ELSE Running(startListening(
                                       openReadingPipe(wr.w, d, 1, CFGTX), d))
             ELSE s

\* a flip that looks at the time only
FlipDueByTime(r, currentTime) == currentTime - r.pairingStartTime > PAIRING_LISTEN_TIME

\* !gotPubKey && (currentTime - pairingStartTime > PAIRING_LISTEN_TIME)
FlipDue(r, currentTime) ==
    ~r.gotPubKey /\ (currentTime - r.pairingStartTime > PAIRING_LISTEN_TIME)

\* the end of the Listen phase: no key came in PAIRING_LISTEN_TIME
ListenFlip(s, d) ==
    IF s.ret THEN s
    ELSE LET r == s.w.dev[d]
         IN  IF FlipDue(r, s.w.now)
             THEN Running(openWritingPipe(
                              stopListening(
                                  [s.w EXCEPT !.dev[d].currentState = "PAIRING_TRANSMIT",
                                              !.dev[d].pairingStartTime = s.w.now], d),
                              d, CFGTX))
             ELSE s

TransmitStep1(s, d) ==
    IF s.ret THEN s
    ELSE LET r == s.w.dev[d]
         IN  IF ~r.sentPubKey /\ (s.w.now - r.lastPairingAttempt) > PAIRING_INTERVAL
             THEN LET w1 == openWritingPipe(
                                stopListening(
                                    [s.w EXCEPT !.dev[d].lastPairingAttempt = s.w.now], d),
                                d, CFGTX)
                      wr == write(w1, d, KeyBytes(r.publicKey), KEY_SIZE, NoTag)
                      w2 == IF wr.ok THEN [wr.w EXCEPT !.dev[d].sentPubKey = TRUE]
                            ELSE wr.w
                  IN  Running(startListening(openReadingPipe(w2, d, 1, CFGRX), d))
             ELSE s

TransmitStep2(s, d, seed) ==
    IF s.ret THEN s
    ELSE LET r == s.w.dev[d]
         IN  IF r.sentPubKey /\ ~r.gotPubKey /\ available(s.w, d)
             THEN LET w1 == ReceivePubKey(s.w, d)
                      unpair == r.pairingChannel >= MAX_CHANNELS
                      pipeID == IF unpair THEN 0 ELSE r.pairingChannel + 1
                      enc == encrypt(w1.dev[d].tempCha, PairingID(r, pipeID), seed)
                  IN  Running([w1 EXCEPT
                                 !.dev[d].isUnpairReq = IF unpair THEN TRUE ELSE @,
                                 !.dev[d].tempCha = enc.cha,
                                 !.dev[d].tempPayload = enc.out])
             ELSE s

TransmitStep3(s, d) ==
    IF s.ret THEN s
    ELSE LET r == s.w.dev[d]
         IN  IF r.gotPubKey /\ ~r.sentAck
                /\ (s.w.now - r.lastPairingAttempt) > PAIRING_INTERVAL
             THEN LET payload == pad(r.tempPayload, MAX_PACKET_SIZE)
                      w1 == openWritingPipe(
                                stopListening(
                                    [s.w EXCEPT !.dev[d].lastPairingAttempt = s.w.now,
                                                !.dev[d].tempPayload = payload], d),
                                d, CFGTX)
                      wr == write(w1, d, payload, Len(payload), NoTag)
                      w2 == IF wr.ok THEN [wr.w EXCEPT !.dev[d].sentAck = TRUE]
                            ELSE wr.w
                  IN  Running(startListening(openReadingPipe(w2, d, 1, CFGRX), d))
             ELSE s

\* Step 4 of Transmit: the peer's encrypted pairing address
TransmitStep4(s, d) ==
    IF s.ret THEN s
    ELSE LET r == s.w.dev[d]
         IN  IF r.sentAck /\ ~r.gotAck /\ available(s.w, d)
             THEN LET packet == unpad(readPacket(s.w, d).data)
                      dec == decryptToStr(r.tempCha, packet)
                      w1 == [popPacket(s.w, d) EXCEPT !.dev[d].tempCha = dec.cha]
                      receivedAddr == dec.out
                  IN  IF checkValidAddr(receivedAddr)
                      THEN LET w2 == [w1 EXCEPT !.dev[d].gotAck = TRUE]
                               receivedUID == Slice(receivedAddr, 1, 5)
                               receivedPipe == Slice(receivedAddr, 0, 1)
                           IN  IF receivedPipe = <<48>>
                               THEN EndPairing(clearPairedUID(w2, d, receivedUID).w, d)
                               ELSE IF r.isUnpairReq
                               THEN EndPairing(w2, d)
                               ELSE EndPairing(
                                        setPairedAddr(w2, d, receivedAddr,
                                            r.pairingChannel, TRUE,
                                            r.tempPublicKey).w, d)
                      ELSE Running(w1)
             ELSE s

\* the check after the switch: the pairing has lasted PAIRING_TIMEOUT
PairingTimeout(s, d) ==
    IF s.ret THEN s
    ELSE IF s.w.now - s.w.dev[d].pairingStartTime > PAIRING_TIMEOUT
    THEN EndPairing(s.w, d)
    ELSE s

\* the switch on the role: the steps of Listen or of Transmit, in order
PairingSteps(w, d, seed) ==
    IF w.dev[d].currentState = "PAIRING_LISTEN"
    THEN ListenFlip(
            ListenStep4(
                ListenStep3(
                    ListenStep2(
                        ListenStep1(Running(w), d), d), d), d, seed), d)
    ELSE TransmitStep4(
            TransmitStep3(
                TransmitStep2(
                    TransmitStep1(Running(w), d), d, seed), d), d)

handlePairing(w, d, seed) == PairingTimeout(PairingSteps(w, d, seed), d).w

\* ------------------------------------------------------------------------
\* loop, enable
\* ------------------------------------------------------------------------
loop(w, d, seed, ub) ==
    IF ~w.dev[d].isEnabled \/ w.dev[d].crashed THEN w
    ELSE IF w.dev[d].currentState \in {"PAIRING_LISTEN", "PAIRING_TRANSMIT"}
    THEN handlePairing(w, d, seed)
    ELSE IF w.dev[d].currentState = "IDLE"
    THEN LET w1 == [w EXCEPT !.dev[d].tempCha = NoCha]
         IN  IF available(w1, d)
             THEN receiveData([w1 EXCEPT !.dev[d].currentState = "RECEIVING"],
                              d, availablePipe(w1, d), ub)
             ELSE w1
    ELSE IF w.dev[d].currentState = "TRANSMITTING"
    THEN sendData(w, d)
    ELSE w

\* a disable that leaves the mailboxes as they are
ClearNoMessages(w, d, i) == w

RECURSIVE ClearAllMessages(_, _, _)
ClearAllMessages(w, d, i) ==
    IF i = MAX_CHANNELS THEN w
    ELSE ClearAllMessages(clearMessages(w, d, i), d, i + 1)

\* enable(en): disabling clears every mailbox and stops listening; enabling
\* calls radio.begin() of the transceiver, nothing else
enable(w, d, en) ==
    LET w1 == [w EXCEPT !.dev[d].isEnabled = en]
    IN  IF ~en THEN stopListening(ClearAllMessages(w1, d, 0), d)
        ELSE radioBegin(w1, d)

\* ------------------------------------------------------------------------
\* Initial values shared by the specifications
\* ------------------------------------------------------------------------
\* Both devices constructed, nothing called yet
Constructed ==
    [dev |-> [d \in Dev |-> RadioManager(d)],
     radio |-> [d \in Dev |-> RF24],
     now |-> 0,
     ghost |-> [d \in Dev |-> NoGhost]]

InitWorld(w) ==
    /\ dev = w.dev
    /\ radio = w.radio
    /\ now = w.now
    /\ ghost = w.ghost

NoChaLog == [issued |-> {}, subs |-> <<>>, calls |-> 0]

\* ------------------------------------------------------------------------
\* SpecCha: two SimpleCha2 objects A and B that hold the same key; any
\* interleaving of encrypt, decrypt of a ciphertext issued since the last
\* setKey, and setKey on both.
\* ------------------------------------------------------------------------
ChaNames == {"A", "B"}
ChaKeys == {17, 42}
ChaPlaintexts == {<<>>, <<72, 105>>}

InitCha ==
    /\ InitWorld(Constructed)
    /\ env = NoEnv
    /\ cha = [c \in ChaNames |-> SimpleCha2(17)]
    /\ chaLog = NoChaLog

\* c.encrypt(x): the ciphertext is remembered as issued
ChaEncrypt(c, x, seed) ==
    /\ chaLog.calls < MaxChaCalls
    /\ LET e == encrypt(cha[c], x, seed)
       IN  /\ cha' = [cha EXCEPT ![c] = e.cha]
           /\ chaLog' = [chaLog EXCEPT !.issued = @ \cup {[x |-> x, ct |-> e.out]},
                                       !.calls = @ + 1]
    /\ UNCHANGED <<dev, radio, now, ghost, env>>

\* c.decrypt(ct) of an issued ciphertext: the submission and its result are
\* logged with the decryptCounter the object had before the call
ChaDecrypt(c, i) ==
    /\ chaLog.calls < MaxChaCalls
    /\ LET e == decrypt(cha[c], i.ct)
       IN  /\ cha' = [cha EXCEPT ![c] = e.cha]
           /\ chaLog' = [chaLog EXCEPT
                           !.subs = Append(@, [ch |-> c, x |-> i.x, ct |-> i.ct,
                                               before |-> cha[c].decryptCounter,
                                               out |-> e.out]),
                           !.calls = @ + 1]
    /\ UNCHANGED <<dev, radio, now, ghost, env>>

\* setKey(k) on both objects: a new epoch, the history starts again
ChaSetKey(k) ==
    /\ chaLog.calls < MaxChaCalls
    /\ chaLog.calls > 0
    /\ cha' = [c \in ChaNames |-> setKey(cha[c], k)]
    /\ chaLog' = [NoChaLog EXCEPT !.calls = chaLog.calls + 1]
    /\ UNCHANGED <<dev, radio, now, ghost, env>>

NextCha ==
    \/ \E c \in ChaNames, x \in ChaPlaintexts, seed \in 0..MaxChaSeed :
          ChaEncrypt(c, x, seed)
    \/ \E c \in ChaNames, i \in chaLog.issued : ChaDecrypt(c, i)
    \/ \E k \in ChaKeys : ChaSetKey(k)

SpecCha == InitCha /\ [][NextCha]_vars

\* the k-th submission is the first of its ciphertext to its channel
FirstSubmission(k) ==
    \A j \in 1..(k - 1) :
        ~(chaLog.subs[j].ch = chaLog.subs[k].ch /\ chaLog.subs[j].ct = chaLog.subs[k].ct)

\* C4 (as stated): the first submission of an issued ciphertext returns its
\* plaintext X and every later submission of the same ciphertext returns an
\* empty result, whatever encrypt / decrypt calls came before.
C4_ReplayRejection_AsStated ==
    \A k \in 1..Len(chaLog.subs) :
        chaLog.subs[k].out =
            IF FirstSubmission(k) THEN chaLog.subs[k].x ELSE <<>>

\* C4 (amended): the first submission of an issued ciphertext returns its
\* plaintext X iff the counter in its nonce is greater than the decryptCounter
\* of the receiving object (the highest counter it accepted since the last
\* setKey), and is empty otherwise; every later submission of the same
\* ciphertext to that object returns an empty result.
C4_ReplayRejection ==
    \A k \in 1..Len(chaLog.subs) :
        chaLog.subs[k].out =
            IF /\ FirstSubmission(k)
               /\ extractCounter(chaLog.subs[k].ct) > chaLog.subs[k].before
            THEN chaLog.subs[k].x
            ELSE <<>>

\* a ciphertext of a non-empty plaintext was accepted and then submitted again
C4_Witness ==
    \E k \in 1..Len(chaLog.subs) :
        /\ ~FirstSubmission(k)
        /\ chaLog.subs[k].x # <<>>
        /\ \E j \in 1..(k - 1) :
              /\ chaLog.subs[j].ch = chaLog.subs[k].ch
              /\ chaLog.subs[j].ct = chaLog.subs[k].ct
              /\ chaLog.subs[j].out = chaLog.subs[k].x


\* ------------------------------------------------------------------------
\* SpecDir: the directory interface of one device (X), called in any order
\* by the application: begin, setPairedAddr with and without a key,
\* clearPairedAddr, clearPairedUID, setPersonalKeys, setPairedDeviceKeys.
\* ------------------------------------------------------------------------
\* the highest channel the application passes
MaxDirChannel == 1
DirChannels == 0..MaxDirChannel

\* "1BBBB", "2BBBB", "1CCCC"
DirAddrs == {<<49, 66, 66, 66, 66>>, <<50, 66, 66, 66, 66>>, <<49, 67, 67, 67, 67>>}
\* "BBBB", "CCCC"
DirUIDs == {<<66, 66, 66, 66>>, <<67, 67, 67, 67>>}
\* public keys of peers; 0 is the all-zero key
DirPeerKeys == {0, X25519Public(5), X25519Public(7)}
\* private keys the application may install with their public keys
DirPrivateKeys == {3, 4}

InitDir ==
    /\ InitWorld(Constructed)
    /\ env = NoEnv
    /\ cha = [c \in ChaNames |-> SimpleCha2(0)]
    /\ chaLog = NoChaLog

DirBegin ==
    /\ SetWorld(begin(World, "X"))
    /\ UNCHANGED <<now, env, cha, chaLog>>

DirSetPairedAddr(address, channel, hasKey, publicKey) ==
    /\ SetWorld(setPairedAddr(World, "X", address, channel, hasKey, publicKey).w)
    /\ UNCHANGED <<now, env, cha, chaLog>>

DirClearPairedAddr(channel) ==
    /\ SetWorld(clearPairedAddr(World, "X", channel))
    /\ UNCHANGED <<now, env, cha, chaLog>>

DirClearPairedUID(uid) ==
    /\ SetWorld(clearPairedUID(World, "X", uid).w)
    /\ UNCHANGED <<now, env, cha, chaLog>>

DirSetPersonalKeys(privateKey) ==
    /\ SetWorld(setPersonalKeys(World, "X", X25519Public(privateKey), privateKey))
    /\ UNCHANGED <<now, env, cha, chaLog>>

DirSetPairedDeviceKeys(channel, publicKey) ==
    /\ SetWorld(setPairedDeviceKeys(World, "X", channel, publicKey).w)
    /\ UNCHANGED <<now, env, cha, chaLog>>

NextDir ==
    \/ DirBegin
    \/ \E a \in DirAddrs, c \in DirChannels, k \in DirPeerKeys :
          DirSetPairedAddr(a, c, TRUE, k)
    \/ \E a \in DirAddrs, c \in DirChannels : DirSetPairedAddr(a, c, FALSE, 0)
    \/ \E c \in DirChannels : DirClearPairedAddr(c)
    \/ \E u \in DirUIDs : DirClearPairedUID(u)
    \/ \E k \in DirPrivateKeys : DirSetPersonalKeys(k)
    \/ \E c \in DirChannels, k \in DirPeerKeys : DirSetPairedDeviceKeys(c, k)

SpecDir == InitDir /\ [][NextDir]_vars

Occupied(d, i) == dev[d].pairedDevices[i].addr # <<>>

\* C7 (as stated): invariant I1 -- no remote UID (characters 1..4 of the
\* address) is in two occupied slots of one device's directory.
C7_UniqueUID_AsStated ==
    \A d \in Dev : \A i, j \in Channels :
        (i # j /\ Occupied(d, i) /\ Occupied(d, j))
            => getPairedUID(dev[d], i) # getPairedUID(dev[d], j)

\* C8 (as stated): invariant I2 -- every occupied slot's sharedKey is
\* X25519(the device's current private key, the slot's publicKey); a slot
\* without a key holds the all-zero public and shared keys.
C8_SharedKey_AsStated ==
    \A d \in Dev : \A i \in Channels :
        Occupied(d, i)
            => dev[d].pairedDevices[i].sharedKey
                 = X25519(dev[d].privateKey, dev[d].pairedDevices[i].publicKey)


\* ------------------------------------------------------------------------
\* SpecData: X and Y paired with each other; X sends messages, both devices
\* run loop(), Y reads its mailbox; the medium may lose a fragment that
\* waits in a receive FIFO and may re-inject the fragments of a message that
\* was delivered; the clock advances.
\* ------------------------------------------------------------------------
\* messages X sends
MaxSends == 2
\* re-injections
MaxReplays == 1
\* the clock advances DataTick at a time (more than RECEIVE_TIMEOUT) while
\* below MaxDataTime
DataTick == 1001
MaxDataTime == 1001
\* the IV seeds drawn for data messages
DataSeeds == {1, 3}

\* "1AAAA", "1BBBB": the pairing addresses of X and Y for slot 0
PairingAddrOf(d) == <<49>> \o AdjustRadioId(RadioIdArg(d))

\* The devices as a completed pairing leaves them: begun, each with the
\* other in slot 0 under the key derived from its public key, the pipes
\* opened by initRadio.
PairedWith(w, d) ==
    initRadio(
        setPairedAddr(begin(w, d), d, PairingAddrOf(Peer(d)), 0, TRUE,
                      X25519Public(PrivateKeyOf(Peer(d)))).w, d)

Paired == PairedWith(PairedWith(Constructed, "X"), "Y")

\* "ping", a string that ends in 0x00, the single byte 0x00, the empty
\* string, and a string of 30 bytes (two fragments)
Ping == <<112, 105, 110, 103>>
Long30 == Fill(PAYLOAD_SIZE, 66) \o <<67>>
DataMsgs == {<<>>, <<0>>, <<65, 0>>, Ping, Long30}

InitData ==
    /\ InitWorld(Paired)
    /\ env = NoEnv
    /\ cha = [c \in ChaNames |-> SimpleCha2(0)]
    /\ chaLog = NoChaLog

\* the application of d calls sendMsg(msg, 0, &status, encryption)
AppSendMsg(d, msg, encryption, seed) ==
    /\ SetWorld(sendMsg(World, d, msg, 0, TRUE, encryption, seed).w)
    /\ UNCHANGED <<now, env, cha, chaLog>>

\* the application of d calls loop()
AppLoop(d) ==
    /\ \E ub \in UbOutcomes : SetWorld(loop(World, d, 0, ub))
    /\ UNCHANGED <<now, env, cha, chaLog>>

\* the application of d calls readMsg(0); what it returns is logged
AppReadMsg(d) ==
    /\ isMsgAvailable(dev[d], 0) > 0
    /\ LET rd == readMsg(World, d, 0)
       IN  SetWorld([rd.w EXCEPT !.ghost[d].reads = Append(@, rd.out)])
    /\ UNCHANGED <<now, env, cha, chaLog>>

\* a fragment that waits in d's receive FIFO never reaches the program
EnvLose(d, i) ==
    /\ i \in 1..Len(radio[d].fifo)
    /\ radio' = [radio EXCEPT ![d].fifo = Slice(@, 0, i - 1) \o Slice(@, i, Len(@))]
    /\ ghost' = [ghost EXCEPT ![d].lost =
                    IF radio[d].fifo[i].tag.replay THEN @
                    ELSE @ \cup {<<radio[d].fifo[i].tag.from, radio[d].fifo[i].tag.seq>>}]
    /\ UNCHANGED <<dev, now, env, cha, chaLog>>

\* the fragments of the k-th message deposited at d are sent to d again, in
\* the same order, on the same pipe
EnvReinject(d, k) ==
    /\ env.replays < MaxReplays
    /\ k \in 1..Len(ghost[d].deposits)
    /\ radio[d].listening
    /\ Len(radio[d].fifo) + Len(ghost[d].deposits[k].pkts) <= RX_FIFO_SIZE
    /\ radio' = [radio EXCEPT ![d].fifo =
                    @ \o [j \in 1..Len(ghost[d].deposits[k].pkts) |->
                            [ghost[d].deposits[k].pkts[j] EXCEPT !.tag.replay = TRUE]]]
    /\ env' = [env EXCEPT !.replays = @ + 1]
    /\ UNCHANGED <<dev, now, ghost, cha, chaLog>>

EnvAdvance(step, limit) ==
    /\ now < limit
    /\ now' = now + step
    /\ UNCHANGED <<dev, radio, ghost, env, cha, chaLog>>

NextData ==
    \/ \E m \in DataMsgs, seed \in DataSeeds :
          ghost["X"].sendSeq < MaxSends /\ AppSendMsg("X", m, TRUE, seed)
    \/ \E m \in DataMsgs :
          ghost["X"].sendSeq < MaxSends /\ AppSendMsg("X", m, FALSE, 0)
    \/ \E d \in Dev : AppLoop(d)
    \/ AppReadMsg("Y")
    \/ \E i \in 1..RX_FIFO_SIZE : EnvLose("Y", i)
    \/ \E k \in 1..MaxSends : EnvReinject("Y", k)
    \/ EnvAdvance(DataTick, MaxDataTime)

SpecData == InitData /\ [][NextData]_vars

\* the number of fragments sendData cuts n bytes into
NumFragments(n) == (n + PAYLOAD_SIZE - 1) \div PAYLOAD_SIZE

\* pkts are the fragments 0, 1, ... of message number seq of device from, all
\* of them, in order (as sent, or as re-injected)
WholeMessage(pkts, from, seq, replay) ==
    /\ seq \in 1..Len(ghost[from].sent)
    /\ Len(pkts) = NumFragments(Len(ghost[from].sent[seq].wire))
    /\ \A j \in 1..Len(pkts) :
          pkts[j].tag = [from |-> from, seq |-> seq, frag |-> j - 1, replay |-> replay]

\* the index field of a fragment's header
HeaderIndex(pkt) == pkt.data[2] + 256 * pkt.data[3]

\* X has sent one message, encrypted, all its fragments were acknowledged,
\* none was lost or re-injected, Y has taken every packet from its radio and
\* has not read its mailbox yet
OneEncryptedMessageDelivered ==
    /\ Len(ghost["X"].sent) = 1
    /\ ghost["X"].sent[1].encryption
    /\ dev["X"].currentState = "IDLE"
    /\ dev["X"].status = 1
    /\ radio["Y"].fifo = <<>>
    /\ ghost["Y"].lost = {}
    /\ env.replays = 0
    /\ ghost["Y"].reads = <<>>

\* C2 (as stated): when X has sent an encrypted message M to Y over a radio
\* that delivered every fragment and Y has ticked through all of them,
\* Y.readMsg(slot of X) returns exactly the bytes of M.
C2_EncryptedRoundTrip_AsStated ==
    OneEncryptedMessageDelivered
        => readMsg(World, "Y", 0).out = ghost["X"].sent[1].msg

\* C3 (as stated): the fragments of an encrypted message that Y has received,
\* re-injected at Y in the same order, deposit no message in Y's mailbox.
C3_TransportReplay_AsStated ==
    \A k \in 1..Len(ghost["Y"].deposits) :
        \A seq \in 1..Len(ghost["X"].sent) :
            ~(/\ ghost["X"].sent[seq].encryption
              /\ WholeMessage(ghost["Y"].deposits[k].pkts, "X", seq, TRUE))

\* C5 (as stated): the fragments sendData makes of a byte string M, fed in
\* order into receiveData, reassemble to exactly M, and the last fragment
\* carries index 0.
C5_FragmentationRoundTrip_AsStated ==
    \A k \in 1..Len(ghost["Y"].deposits) :
        \A seq \in 1..Len(ghost["X"].sent) :
            WholeMessage(ghost["Y"].deposits[k].pkts, "X", seq, FALSE)
                => /\ ghost["Y"].deposits[k].rx = ghost["X"].sent[seq].wire
                   /\ HeaderIndex(ghost["Y"].deposits[k].pkts[
                                      Len(ghost["Y"].deposits[k].pkts)]) = 0

\* C6 (as stated): no message deposited in a mailbox contains the payload of
\* a fragment of a message of which some fragment was not received (lost on
\* the way, or never sent because the sender gave up).
C6_DroppedFragment_AsStated ==
    \A k \in 1..Len(ghost["Y"].deposits) :
        \A j \in 1..Len(ghost["Y"].deposits[k].pkts) :
            LET tag == ghost["Y"].deposits[k].pkts[j].tag
            IN  ~tag.replay
                    => /\ <<tag.from, tag.seq>> \notin ghost["Y"].lost
                       /\ tag.seq \notin ghost[tag.from].aborted

\* ------------------------------------------------------------------------
\* SpecBox: X and Y paired; X sends short messages, in clear or encrypted,
\* Y receives them and reads or clears its mailbox now and then.
\* ------------------------------------------------------------------------
MaxBoxSends == 4
\* the IV seed of the encrypted messages
BoxSeed == 1
BoxMsgs == {<<1>>, <<2>>}

AppClearMessages(d) ==
    /\ SetWorld(clearMessages(World, d, 0))
    /\ UNCHANGED <<now, env, cha, chaLog>>

NextBox ==
    \/ \E m \in BoxMsgs, e \in BOOLEAN :
          ghost["X"].sendSeq < MaxBoxSends /\ AppSendMsg("X", m, e, BoxSeed)
    \/ \E d \in Dev : AppLoop(d)
    \/ AppReadMsg("Y")
    \/ AppClearMessages("Y")

SpecBox == InitData /\ [][NextBox]_vars

MailboxBounded ==
    \A d \in Dev : \A i \in Channels :
        Len(dev[d].pairedDevices[i].mailbox) <= MAX_MAILBOX_MSG

\* a step that deposits a message in a mailbox leaves the mailbox as it was,
\* without its oldest message if it was full, with the new message last
PushKeepsOrder ==
    \A d \in Dev :
        Len(ghost'[d].deposits) = Len(ghost[d].deposits) + 1
            => LET dep == ghost'[d].deposits[Len(ghost'[d].deposits)]
                   old == dev[d].pairedDevices[dep.channel].mailbox
               IN  dev'[d].pairedDevices[dep.channel].mailbox
                     = (IF Len(old) >= MAX_MAILBOX_MSG THEN Tail(old) ELSE old)
                           \o <<dep.stored>>

\* C10: invariant I4 -- every mailbox holds at most MAX_MAILBOX_MSG messages
\* in every reachable state, and a completed message pushed into a full
\* mailbox removes the oldest message, keeps the order of the others and
\* comes last.
C10_Mailbox == []MailboxBounded /\ [][PushKeepsOrder]_vars

\* a message was pushed into a full mailbox that held two different messages
C10_Witness ==
    \E k \in 1..Len(ghost["Y"].deposits) :
        /\ ghost["Y"].deposits[k].full
        /\ Len(dev["Y"].pairedDevices[0].mailbox) = MAX_MAILBOX_MSG
        /\ dev["Y"].pairedDevices[0].mailbox[1] # dev["Y"].pairedDevices[0].mailbox[2]

\* ------------------------------------------------------------------------
\* SpecPair: X and Y, begun, with empty directories.  The application of X
\* calls startPairing at time 0, the application of Y at its offset; every
\* PairTick milliseconds each device runs loop() once, in either order.  The
\* radio delivers every packet that a listening device's pipe matches.
\* ------------------------------------------------------------------------
PairTick == 50
MaxPairTime == 16000
\* when Y calls startPairing
PairOffsets == {0, 200}

Begun == begin(begin(Constructed, "X"), "Y")

InitPair ==
    /\ InitWorld(Begun)
    /\ \E o \in PairOffsets :
          env = [NoEnv EXCEPT !.startAt = [d \in Dev |-> IF d = "X" THEN 0 ELSE o]]
    /\ cha = [c \in ChaNames |-> SimpleCha2(0)]
    /\ chaLog = NoChaLog

PairStart(d) ==
    /\ ~env.started[d]
    /\ env.startAt[d] = now
    /\ SetWorld(startPairing(World, d).w)
    /\ env' = [env EXCEPT !.started[d] = TRUE,
                          !.slotsAtStart[d] = dev[d].pairedDevices]
    /\ UNCHANGED <<now, cha, chaLog>>

\* loop() of d, once per clock value, after a startPairing that is due
PairLoop(d) ==
    /\ ~env.ticked[d]
    /\ env.startAt[d] = now => env.started[d]
    /\ \E seed \in IvSeeds, ub \in UbOutcomes : SetWorld(loop(World, d, seed, ub))
    /\ env' = [env EXCEPT !.ticked[d] = TRUE]
    /\ UNCHANGED <<now, cha, chaLog>>

BothStarted == \A d \in Dev : env.started[d]
BothIdle == \A d \in Dev : dev[d].currentState = "IDLE"

\* the clock advances when both have run loop(), until both pairings ended
PairAdvance ==
    /\ \A d \in Dev : env.ticked[d]
    /\ now < MaxPairTime
    /\ ~(BothStarted /\ BothIdle)
    /\ now' = now + PairTick
    /\ env' = [env EXCEPT !.ticked = [d \in Dev |-> FALSE]]
    /\ UNCHANGED <<dev, radio, ghost, cha, chaLog>>

NextPair ==
    \/ \E d \in Dev : PairStart(d)
    \/ \E d \in Dev : PairLoop(d)
    \/ PairAdvance

SpecPair == InitPair /\ [][NextPair]_vars

\* each device holds the other's pairing address in slot 0 and the two
\* sharedKeys are the same value
PairedOutcome ==
    /\ \A d \in Dev : dev[d].pairedDevices[0].addr = PairingAddrOf(Peer(d))
    /\ dev["X"].pairedDevices[0].sharedKey = dev["Y"].pairedDevices[0].sharedKey

\* C1 (as stated): X starts pairing first and Y 200 ms later, both keep
\* calling loop(): 10 s after Y's call both are back in IDLE, and once both
\* are back in IDLE X's slot 0 holds "1BBBB", Y's slot 0 holds "1AAAA" and
\* the sharedKeys of the two slots are equal.
C1_PairingHappyPath_AsStated ==
    (env.startAt["Y"] = 200 /\ BothStarted)
        => /\ now >= 200 + PAIRING_TIMEOUT => BothIdle
           /\ BothIdle => PairedOutcome

\* C9 (as stated): invariant I3 -- whenever slot i of an enabled device that
\* is not in the middle of a pairing is occupied, its radio's reading pipe
\* i + 1 is open on str(i) followed by the local RadioId.
C9_ReadingPipes_AsStated ==
    \A d \in Dev : \A i \in Channels :
        (/\ dev[d].isEnabled
         /\ dev[d].currentState = "IDLE"
         /\ Occupied(d, i))
            => radio[d].readPipe[i + 1] = SlotPipeAddr(dev[d], i)

\* What a completed pairing leaves is what SpecData and SpecBox start from.
PairingLeavesPaired ==
    (BothStarted /\ BothIdle /\ PairedOutcome)
        => \A d \in Dev :
              /\ dev[d].pairedDevices = Paired.dev[d].pairedDevices
              /\ dev[d].isEnabled = Paired.dev[d].isEnabled
              /\ radio[d].readPipe = Paired.radio[d].readPipe
              /\ radio[d].listening = Paired.radio[d].listening
              /\ radio[d].channel = Paired.radio[d].channel
              /\ radio[d].fifo = Paired.radio[d].fifo


\* ------------------------------------------------------------------------
\* SpecSolo: X and Y begun, with empty directories.  Only the application of
\* X calls startPairing; Y keeps calling loop() without ever pairing, so no
\* peer answers X.
\* ------------------------------------------------------------------------
\* when X calls startPairing
SoloStarts == {0, 300}

InitSolo ==
    /\ InitWorld(Begun)
    /\ \E t \in SoloStarts :
          env = [NoEnv EXCEPT !.startAt = [d \in Dev |-> IF d = "X" THEN t ELSE -1]]
    /\ cha = [c \in ChaNames |-> SimpleCha2(0)]
    /\ chaLog = NoChaLog

SpecSolo == InitSolo /\ [][NextPair]_vars

InPairing(d) == dev[d].currentState \in {"PAIRING_LISTEN", "PAIRING_TRANSMIT"}

\* C11 (as stated): startPairing succeeded at t0 and no peer answers: at
\* every tick of loop() later than t0 + PAIRING_TIMEOUT the device is neither
\* in PAIRING_LISTEN nor in PAIRING_TRANSMIT (it is back in IDLE).
C11_PairingTimeoutBound_AsStated ==
    \A d \in Dev :
        (/\ env.started[d]
         /\ env.ticked[d]
         /\ now > env.startAt[d] + PAIRING_TIMEOUT)
            => ~InPairing(d)


\* ------------------------------------------------------------------------
\* SpecRepair: X and Y already paired with each other in slot 0 run the
\* pairing handshake again, one of them calling startPairing 200 ms after
\* the other.  Either both have free slots, or the four other slots of X
\* hold four other devices.
\* ------------------------------------------------------------------------
\* "1CCCC", "1DDDD", "1EEEE", "1FFFF": the devices in slots 1..4 of a full X
OtherAddr(i) == <<49>> \o Fill(4, 66 + i)

RECURSIVE FillDirectory(_, _, _)
\* setPairedAddr(OtherAddr(i), i) for the slots i..MAX_CHANNELS-1 of d
FillDirectory(w, d, i) ==
    IF i = MAX_CHANNELS THEN w
    ELSE FillDirectory(setPairedAddr(w, d, OtherAddr(i), i, FALSE, 0).w, d, i + 1)

PairedFull == FillDirectory(Paired, "X", 1)

InitRepair ==
    /\ \E w \in {Paired, PairedFull} : InitWorld(w)
    /\ \E first \in Dev :
          env = [NoEnv EXCEPT !.startAt =
                    [d \in Dev |-> IF d = first THEN 0 ELSE 200]]
    /\ cha = [c \in ChaNames |-> SimpleCha2(0)]
    /\ chaLog = NoChaLog

SpecRepair == InitRepair /\ [][NextPair]_vars

\* the directory of X was full when the handshake began (slot 4 holds a
\* device that the handshake never touches)
WasFull == dev["X"].pairedDevices[MAX_CHANNELS - 1].addr = OtherAddr(MAX_CHANNELS - 1)

\* the pairing address d last encrypted into tempPayload, read back with
\* the key it was encrypted under
EmittedAddress(d) ==
    LET p == dev[d].tempPayload
    IN  IF Len(p) < NONCE_SIZE + 5 THEN <<>>
        ELSE ChaChaXor(dev[d].tempSharedKey, Slice(p, 0, NONCE_SIZE),
                       Slice(p, NONCE_SIZE, NONCE_SIZE + 5))

\* the slots of d that hold the UID of the other device
SlotsOfPeer(d) ==
    {i \in Channels : Occupied(d, i) /\ getPairedUID(dev[d], i) = dev[Peer(d)].radioID}

\* C12 (as stated): X, all 5 slots occupied and slot 0 holding Y, starts the
\* handshake and Y, whose slot 0 holds X, follows: once both are back in
\* IDLE, X has emitted the unpair address "0BBBB", Y's slot 0 is empty and
\* X's slot that held Y is empty.
C12_UnpairOnCollision_AsStated ==
    (WasFull /\ env.startAt["X"] = 0 /\ BothStarted /\ BothIdle)
        => /\ EmittedAddress("X") = <<48>> \o dev["Y"].radioID
           /\ ~Occupied("Y", 0)
           /\ ~Occupied("X", 0)

\* C13 (as stated): two devices paired with each other, with free slots,
\* complete the handshake again in either role: afterwards each holds the
\* UID of the other in exactly one slot.
C13_PairingIdempotence_AsStated ==
    (~WasFull /\ BothStarted /\ BothIdle)
        => \A d \in Dev : Cardinality(SlotsOfPeer(d)) = 1


\* ------------------------------------------------------------------------
\* SpecApi: X and Y paired with each other.  The application of X calls
\* sendMsg, sendMsgToAddr, startPairing and enable in any state of the
\* device, the application of Y calls enable; both call loop(); the clock
\* advances so that a pairing passes through its phases.
\* ------------------------------------------------------------------------
\* calls other than loop()
MaxApiCalls == 2
\* the IV seed of the encrypted messages
ApiSeed == 1
\* the clock advances ApiTick at a time (more than PAIRING_LISTEN_TIME) while
\* below MaxApiTime
ApiTick == 5001
MaxApiTime == 15003

\* the empty message, one byte, and 30 bytes (two fragments)
ApiMsgs == {<<>>, <<1>>, Long30}
\* a paired channel, an unpaired channel, a channel out of range
ApiChannels == {0, 1, MAX_CHANNELS}
\* the address of the paired peer, the empty address, an unknown address
ApiAddrs(d) == {PairingAddrOf(Peer(d)), <<>>, OtherAddr(1)}

\* the value a uint8_t status holds after *status = -1
StatusError == (0 - 1) % 256

ApiSendMsg(d, msg, channel, encryption) ==
    /\ env.calls < MaxApiCalls
    /\ SetWorld(sendMsg(World, d, msg, channel, TRUE, encryption, ApiSeed).w)
    /\ env' = [env EXCEPT !.calls = @ + 1]
    /\ UNCHANGED <<now, cha, chaLog>>

ApiSendMsgToAddr(d, msg, targetAddr, encryption) ==
    /\ env.calls < MaxApiCalls
    /\ SetWorld(sendMsgToAddr(World, d, msg, targetAddr, TRUE, encryption, ApiSeed).w)
    /\ env' = [env EXCEPT !.calls = @ + 1]
    /\ UNCHANGED <<now, cha, chaLog>>

ApiStartPairing(d) ==
    /\ env.calls < MaxApiCalls
    /\ SetWorld(startPairing(World, d).w)
    /\ env' = [env EXCEPT !.calls = @ + 1]
    /\ UNCHANGED <<now, cha, chaLog>>

ApiEnable(d, en) ==
    /\ env.calls < MaxApiCalls
    /\ SetWorld(enable(World, d, en))
    /\ env' = [env EXCEPT !.calls = @ + 1]
    /\ UNCHANGED <<now, cha, chaLog>>

\* the clock advances while X is pairing (no other step of this
\* specification depends on the time)
ApiAdvance == InPairing("X") /\ EnvAdvance(ApiTick, MaxApiTime)

NextApi ==
    \/ \E m \in ApiMsgs, c \in ApiChannels, e \in BOOLEAN : ApiSendMsg("X", m, c, e)
    \/ \E m \in ApiMsgs, a \in ApiAddrs("X"), e \in BOOLEAN :
          ApiSendMsgToAddr("X", m, a, e)
    \/ ApiStartPairing("X")
    \/ \E d \in Dev, en \in BOOLEAN : ApiEnable(d, en)
    \/ \E d \in Dev : AppLoop(d)
    \/ ApiAdvance

SpecApi == InitData /\ [][NextApi]_vars

Ready(d) == dev[d].isEnabled /\ dev[d].currentState = "IDLE"

\* a call of d that returned r was refused: it returned false, wrote -1 to
\* the status and changed nothing else
Refused(r, d) == ~r.ok /\ r.w = [World EXCEPT !.dev[d].status = StatusError]

\* C14: in every state in which a device is disabled or not IDLE, sendMsg and
\* sendMsgToAddr return false and change nothing but the status, which
\* becomes -1, and startPairing returns false and changes nothing: the
\* state, the outgoing transfer and the pairing context stay as they are.
\* (So these calls succeed only on an enabled device in IDLE.)
C14_RadioExclusivity ==
    \A d \in Dev :
        ~Ready(d)
            => /\ \A m \in ApiMsgs, c \in ApiChannels, e \in BOOLEAN :
                     Refused(sendMsg(World, d, m, c, TRUE, e, ApiSeed), d)
               /\ \A m \in ApiMsgs, a \in ApiAddrs(d), e \in BOOLEAN :
                     Refused(sendMsgToAddr(World, d, m, a, TRUE, e, ApiSeed), d)
               /\ ~startPairing(World, d).ok
               /\ startPairing(World, d).w = World

\* a send was refused while a transfer was in flight, and one while a
\* pairing was going on: the status says -1 and the device goes on
C14_Witness ==
    /\ dev["X"].status = StatusError
    /\ dev["X"].isEnabled
    /\ dev["X"].currentState \in {"TRANSMITTING", "PAIRING_TRANSMIT"}
    /\ env.calls >= 2

\* a call of d that returned r was rejected as invalid: false, status -1,
\* nothing written to the radio, the state still IDLE
Rejected(r, d) ==
    /\ ~r.ok
    /\ r.w.dev[d].status = StatusError
    /\ r.w.radio = radio
    /\ r.w.dev[d].currentState = "IDLE"

\* C16 (as stated): on an enabled device in IDLE, sendMsg with a channel out
\* of range or unpaired, and sendMsgToAddr with an empty target address,
\* return false with status -1, emit nothing and leave the state IDLE.
C16_InvalidTarget_AsStated ==
    \A d \in Dev :
        Ready(d)
            => /\ \A m \in ApiMsgs, c \in ApiChannels, e \in BOOLEAN :
                     (c >= MAX_CHANNELS \/ ~Occupied(d, c))
                        => Rejected(sendMsg(World, d, m, c, TRUE, e, ApiSeed), d)
               /\ \A m \in ApiMsgs, e \in BOOLEAN :
                     Rejected(sendMsgToAddr(World, d, m, <<>>, TRUE, e, ApiSeed), d)

\* C19: enable(false) leaves every mailbox empty and the radio not
\* listening, and loop() on a disabled device changes nothing -- no field of
\* the device, no state of the radio.
C19_Disable ==
    \A d \in Dev :
        /\ LET w == enable(World, d, FALSE)
           IN  /\ \A i \in Channels : w.dev[d].pairedDevices[i].mailbox = <<>>
               /\ ~w.radio[d].listening
               /\ ~w.dev[d].isEnabled
        /\ ~dev[d].isEnabled
              => \A seed \in IvSeeds, ub \in UbOutcomes : loop(World, d, seed, ub) = World

\* Y received a message into its mailbox and was disabled afterwards: the
\* mailboxes are empty and the radio does not listen
C19_Witness ==
    /\ ~dev["Y"].isEnabled
    /\ ghost["Y"].deposits # <<>>
    /\ \A i \in Channels : dev["Y"].pairedDevices[i].mailbox = <<>>
    /\ ~radio["Y"].listening

\* C20 (as stated): whenever a device is enabled and in IDLE, its radio
\* listens on DATA_CHANNEL and a reading pipe is open for every occupied
\* slot, whatever enable(false) / enable(true) calls were made.
C20_ReenableRestores_AsStated ==
    \A d \in Dev :
        Ready(d)
            => /\ radio[d].listening
               /\ radio[d].channel = DATA_CHANNEL
               /\ \A i \in Channels : Occupied(d, i) => radio[d].readPipe[i + 1] # <<>>


\* ------------------------------------------------------------------------
\* SpecSize: X and Y paired with each other.  The application of X submits
\* one byte, MAX_MSG_SIZE bytes or MAX_MSG_SIZE + 1 bytes to Y, encrypted
\* or not, and calls loop(); the transceiver of Y acknowledges what its
\* receive FIFO has room for, the application of Y is busy elsewhere.
\* ------------------------------------------------------------------------
\* messages X submits
MaxSizeCalls == 3
\* the IV seed of the encrypted messages
SizeSeed == 1

\* the largest message and one byte more
Largest == Fill(MAX_MSG_SIZE, 66)
Oversize == Fill(MAX_MSG_SIZE + 1, 66)
SizeMsgs == {<<1>>, Largest, Oversize}

SizeSendMsg(d, msg, encryption) ==
    /\ env.calls < MaxSizeCalls
    /\ SetWorld(sendMsg(World, d, msg, 0, TRUE, encryption, SizeSeed).w)
    /\ env' = [env EXCEPT !.calls = @ + 1]
    /\ UNCHANGED <<now, cha, chaLog>>

NextSize ==
    \/ \E m \in SizeMsgs, e \in BOOLEAN : SizeSendMsg("X", m, e)
    \/ AppLoop("X")

SpecSize == InitData /\ [][NextSize]_vars

\* C15: on a device that is enabled and IDLE a message longer than
\* MAX_MSG_SIZE is refused by sendMsg and by sendMsgToAddr -- the call
\* returns false, the status is -1, no radio is touched (no fragment is
\* emitted) and the state stays IDLE; a message of 1 byte and one of
\* MAX_MSG_SIZE bytes to a paired channel are accepted in that state (the
\* call returns true), encrypted or not.
C15_OversizeRejection ==
    Ready("X")
        => /\ \A e \in BOOLEAN :
                 /\ Rejected(sendMsg(World, "X", Oversize, 0, TRUE, e, SizeSeed), "X")
                 /\ Rejected(sendMsgToAddr(World, "X", Oversize, PairingAddrOf("Y"),
                                           TRUE, e, SizeSeed), "X")
           /\ \A m \in {<<1>>, Largest}, e \in BOOLEAN :
                 Occupied("X", 0) => sendMsg(World, "X", m, 0, TRUE, e, SizeSeed).ok

\* X submitted a message of MAX_MSG_SIZE + 1 bytes first, which was refused
\* (the status is written 0 by an accepted call only), then one of
\* MAX_MSG_SIZE bytes, which is on its way
C15_Witness ==
    /\ env.calls = 2
    /\ Len(ghost["X"].sent) = 1
    /\ Len(ghost["X"].sent[1].msg) = MAX_MSG_SIZE
    /\ dev["X"].status = 0
    /\ dev["X"].currentState = "TRANSMITTING"
    /\ dev["X"].outgoingMsgIndex > 0


\* ------------------------------------------------------------------------
\* SpecSend: X and Y paired with each other.  The application of X submits
\* messages of zero to five fragments to Y (slot 0) or to an address nobody
\* listens on; main.cpp calls loop() of X again and again; Y calls loop()
\* when it does, so its receive FIFO may be full.
\* ------------------------------------------------------------------------
\* messages X submits
MaxSendCalls == 2
\* the IV seed of the encrypted messages
SendSeed == 1

\* five fragments
Long5 == Fill(4 * PAYLOAD_SIZE, 68) \o <<69>>
\* the empty message, one byte, two fragments, five fragments
SendMsgs == {<<>>, <<1>>, Long30, Long5}
\* the address of the paired peer and an address nobody listens on
SendAddrs(d) == {PairingAddrOf(Peer(d)), OtherAddr(1)}

SendMsg(d, msg, encryption) ==
    /\ env.calls < MaxSendCalls
    /\ SetWorld(sendMsg(World, d, msg, 0, TRUE, encryption, SendSeed).w)
    /\ env' = [env EXCEPT !.calls = @ + 1]
    /\ UNCHANGED <<now, cha, chaLog>>

SendMsgToAddr(d, msg, targetAddr, encryption) ==
    /\ env.calls < MaxSendCalls
    /\ SetWorld(sendMsgToAddr(World, d, msg, targetAddr, TRUE, encryption, SendSeed).w)
    /\ env' = [env EXCEPT !.calls = @ + 1]
    /\ UNCHANGED <<now, cha, chaLog>>

NextSend ==
    \/ \E m \in SendMsgs, e \in BOOLEAN : SendMsg("X", m, e)
    \/ \E m \in SendMsgs, a \in SendAddrs("X"), e \in BOOLEAN :
          SendMsgToAddr("X", m, a, e)
    \/ \E d \in Dev : AppLoop(d)

\* main.cpp calls radioManager.loop() in every iteration of loop()
SpecSend == InitData /\ [][NextSend]_vars /\ WF_vars(AppLoop("X"))

\* fragments of the transfer number seq of device d in a receive FIFO
FragmentsOf(fifo, d, seq) ==
    Cardinality({i \in 1..Len(fifo) : fifo[i].tag.from = d /\ fifo[i].tag.seq = seq})

\* C17: when a radio write of a data transfer fails (the first fragment or
\* a later one), the step leaves the device in IDLE with status -1 and the
\* radio listening; afterwards no fragment of that transfer reaches a
\* receive FIFO, and as long as that transfer is the last one submitted the
\* device stays in IDLE with status -1 (never 1).
C17_WriteFailureFatal ==
    [][\A d \in Dev :
          /\ ghost'[d].aborted # ghost[d].aborted
                => /\ dev'[d].currentState = "IDLE"
                   /\ dev'[d].status = StatusError
                   /\ radio'[d].listening
          /\ \A seq \in ghost[d].aborted :
                FragmentsOf(radio'[Peer(d)].fifo, d, seq)
                    <= FragmentsOf(radio[Peer(d)].fifo, d, seq)
          /\ ghost'[d].sendSeq \in ghost'[d].aborted
                => /\ dev'[d].currentState = "IDLE"
                   /\ dev'[d].status = StatusError]_vars

\* a transfer to an address nobody listens on failed at its first fragment,
\* and a transfer to Y failed at a later fragment, some fragments of it
\* waiting in the full receive FIFO of Y
C17_Witness ==
    /\ ghost["X"].aborted = {1, 2}
    /\ ghost["X"].sent[1].addr = OtherAddr(1)
    /\ FragmentsOf(radio["Y"].fifo, "X", 2) > 0
    /\ Len(radio["Y"].fifo) = RX_FIFO_SIZE
    /\ dev["X"].currentState = "IDLE"
    /\ dev["X"].status = StatusError

\* C18 (as stated): whenever X is in TRANSMITTING and loop() keeps being
\* called, X comes back to IDLE with status 1 or -1.
C18_TransferRetired_AsStated ==
    (dev["X"].currentState = "TRANSMITTING")
        ~> (dev["X"].currentState = "IDLE" /\ dev["X"].status \in {1, StatusError})


\* ------------------------------------------------------------------------
\* Configuration: Base64, the JSON documents, exportCfg / importCfg
\* ------------------------------------------------------------------------
\* Base64::encode's encoding_table
encoding_table(s) ==
    IF s < 26 THEN 65 + s
    ELSE IF s < 52 THEN 97 + (s - 26)
    ELSE IF s < 62 THEN 48 + (s - 52)
    ELSE IF s = 62 THEN 43 ELSE 47

\* Base64::decode's decoding_table: 64 for a character outside the alphabet
decoding_table(c) ==
    IF c >= 65 /\ c <= 90 THEN c - 65
    ELSE IF c >= 97 /\ c <= 122 THEN c - 71
    ELSE IF c >= 48 /\ c <= 57 THEN c + 4
    ELSE IF c = 43 THEN 62
    ELSE IF c = 47 THEN 63 ELSE 64

\* Base64::encode(data, length)
encode(data) ==
    LET length == Len(data)
        output_length == 4 * ((length + 2) \div 3)
        octet(i) == IF i < length THEN data[i + 1] ELSE 0
        triple(g) == octet(3 * g) * 65536 + octet(3 * g + 1) * 256 + octet(3 * g + 2)
        sextet(j) == (triple((j - 1) \div 4) \div (64 ^ (3 - ((j - 1) % 4)))) % 64
    IN  [j \in 1..output_length |->
            IF \/ length % 3 = 1 /\ j >= output_length - 1
               \/ length % 3 = 2 /\ j = output_length
            THEN 61 ELSE encoding_table(sextet(j))]

\* Base64::decodedLength
decodedLength(input) ==
    LET n == Len(input)
        padding == (IF n > 0 /\ input[n] = 61 THEN 1 ELSE 0)
                     + (IF n > 1 /\ input[n - 1] = 61 THEN 1 ELSE 0)
    IN  (n \div 4) * 3 - padding

\* Base64::decode(input, Bytes&): the vector after the call
decode(input) ==
    LET n == Len(input)
        output_length == decodedLength(input)
        sextet(i) == IF input[i] = 61 THEN 0 ELSE decoding_table(input[i])
        triple(g) == sextet(4 * g + 1) * 262144 + sextet(4 * g + 2) * 4096
                       + sextet(4 * g + 3) * 64 + sextet(4 * g + 4)
    IN  IF output_length <= 0 THEN <<>>
        ELSE IF n % 4 # 0 THEN Fill(output_length, 0)
        ELSE [j \in 1..output_length |->
                (triple((j - 1) \div 3) \div (256 ^ (2 - ((j - 1) % 3)))) % 256]

\* JSON values (ArduinoJson variants): null, a string, an object
JsonNull == [kind |-> "null", val |-> <<>>]
JsonString(s) == [kind |-> "string", val |-> s]
JsonObject(o) == [kind |-> "object", val |-> o]

\* variant.as<String>(): the string of a string variant, "null" for null
asString(v) == IF v.kind = "string" THEN v.val ELSE <<110, 117, 108, 108>>

\* serializeJson(doc, output): the String that holds the text of doc, and
\* deserializeJson(doc, input): the document that text stands for
serializeJson(doc) == [json |-> doc]
deserializeJson(input) == input.json

\* getPairedDevicesJson(keys): "0" for an empty slot; pubKey[i] is set for
\* the occupied slots only (the elements in between are null)
getPairedDevicesJson(r, keys) ==
    serializeJson(
        [addr |-> [i \in Channels |->
                     IF r.pairedDevices[i].addr = <<>> THEN JsonString(<<48>>)
                     ELSE JsonString(r.pairedDevices[i].addr)],
         pubKey |-> [i \in Channels |->
                     IF r.pairedDevices[i].addr # <<>> /\ keys
                     THEN JsonString(encode(KeyBytes(r.pairedDevices[i].publicKey)))
                     ELSE JsonNull]])

RECURSIVE SetSlotsFromJson(_, _, _, _)
\* the for loop of setPairedDevicesJson
SetSlotsFromJson(w, d, doc, i) ==
    IF i = MAX_CHANNELS THEN w
    ELSE LET pubKeyBytes == decode(asString(doc.pubKey[i]))
             w1 == IF doc.addr[i].kind = "null" THEN w
                   ELSE IF doc.addr[i] = JsonString(<<48>>) THEN clearPairedAddr(w, d, i)
                   ELSE IF Len(pubKeyBytes) # KEY_SIZE THEN w
                   ELSE setPairedAddr(w, d, asString(doc.addr[i]), i, TRUE,
                                      KeyOfBytes(pubKeyBytes)).w
         IN  SetSlotsFromJson(w1, d, doc, i + 1)

setPairedDevicesJson(w, d, addrJson) ==
    initRadio(SetSlotsFromJson(w, d, deserializeJson(addrJson), 0), d)

\* exportCfg: doc["pairedDevices"] is assigned the String that
\* getPairedDevicesJson returns, so the document holds it as a string
exportCfg(r) ==
    serializeJson(
        [pairedDevices |-> JsonString(getPairedDevicesJson(r, TRUE)),
         personalKeys |->
             JsonObject([publicKey |-> JsonString(encode(KeyBytes(r.publicKey))),
                         privateKey |-> JsonString(encode(KeyBytes(r.privateKey)))])])

\* importCfg of a JSON text
importCfg(w, d, jsonConfig) ==
    LET doc == deserializeJson(jsonConfig)
        pubKey == decode(asString(doc.personalKeys.val.publicKey))
        privKey == decode(asString(doc.personalKeys.val.privateKey))
        w1 == IF /\ doc.personalKeys.kind = "object"
                 /\ Len(pubKey) = KEY_SIZE /\ Len(privKey) = KEY_SIZE
              THEN setPersonalKeys(w, d, KeyOfBytes(pubKey), KeyOfBytes(privKey))
              ELSE w
    IN  IF doc.pairedDevices.kind = "object"
        THEN setPairedDevicesJson(w1, d, serializeJson(doc.pairedDevices.val))
        ELSE w1


\* ------------------------------------------------------------------------
\* SpecCfg: the application of X sets and clears slots of its directory and
\* installs personal keys; Y, constructed, imports the configuration X
\* exports, or the directory X lists; X imports its own configuration.
\* ------------------------------------------------------------------------
\* "1BBBB", "2CCCC", and "6BBBB", whose first character is not in '0'..'5'
CfgAddrs == {<<49, 66, 66, 66, 66>>, <<50, 67, 67, 67, 67>>, <<54, 66, 66, 66, 66>>}
\* the public key of a peer, and the all-zero key
CfgPeerKeys == {0, X25519Public(5)}
\* the slots the application sets and clears
CfgChannels == {1}
\* a private key the application may install with its public key
CfgPrivateKey == 4

CfgSetPairedAddr(d, address, channel, hasKey, publicKey) ==
    /\ SetWorld(setPairedAddr(World, d, address, channel, hasKey, publicKey).w)
    /\ UNCHANGED <<now, env, cha, chaLog>>

CfgClearPairedAddr(d, channel) ==
    /\ SetWorld(clearPairedAddr(World, d, channel))
    /\ UNCHANGED <<now, env, cha, chaLog>>

CfgSetPersonalKeys(d, privateKey) ==
    /\ SetWorld(setPersonalKeys(World, d, X25519Public(privateKey), privateKey))
    /\ UNCHANGED <<now, env, cha, chaLog>>

\* d imports the configuration that e exports
CfgImport(d, e) ==
    /\ SetWorld(importCfg(World, d, exportCfg(dev[e])))
    /\ UNCHANGED <<now, env, cha, chaLog>>

\* d is given the directory that e lists
CfgSetPairedDevicesJson(d, e, keys) ==
    /\ SetWorld(setPairedDevicesJson(World, d, getPairedDevicesJson(dev[e], keys)))
    /\ UNCHANGED <<now, env, cha, chaLog>>

NextCfg ==
    \/ \E a \in CfgAddrs, c \in CfgChannels, k \in CfgPeerKeys :
          CfgSetPairedAddr("X", a, c, TRUE, k)
    \/ \E a \in CfgAddrs, c \in CfgChannels : CfgSetPairedAddr("X", a, c, FALSE, 0)
    \/ \E d \in Dev, c \in CfgChannels : CfgClearPairedAddr(d, c)
    \/ CfgSetPersonalKeys("X", CfgPrivateKey)
    \/ \E d \in Dev : CfgImport(d, "X")
    \/ \E keys \in BOOLEAN : CfgSetPairedDevicesJson("Y", "X", keys)

SpecCfg == InitDir /\ [][NextCfg]_vars

\* the directory of d is empty
EmptyDirectory(d) == \A i \in Channels : ~Occupied(d, i)

\* C21 (as stated): a device with an empty directory that imports the
\* configuration exported by X ends with the address and the public key of
\* X in every slot and with the personal keys of X; and X importing its own
\* configuration changes nothing.
C21_ConfigRoundTrip_AsStated ==
    /\ EmptyDirectory("Y")
          => LET y == importCfg(World, "Y", exportCfg(dev["X"])).dev["Y"]
             IN  /\ \A i \in Channels :
                       /\ y.pairedDevices[i].addr = dev["X"].pairedDevices[i].addr
                       /\ y.pairedDevices[i].publicKey
                            = dev["X"].pairedDevices[i].publicKey
                 /\ y.publicKey = dev["X"].publicKey
                 /\ y.privateKey = dev["X"].privateKey
    /\ importCfg(World, "X", exportCfg(dev["X"])) = World

\* C22 (as stated): the address of every occupied slot satisfies
\* checkValidAddr.
C22_AddressValidity_AsStated ==
    \A d \in Dev : \A i \in Channels :
        Occupied(d, i) => checkValidAddr(dev[d].pairedDevices[i].addr)


\* ------------------------------------------------------------------------
\* Further statements on SpecSend
\* ------------------------------------------------------------------------
\* checkSendingStatus: messageStatus == -1, the uint8_t promoted to int
FailureObserved(messageStatus) == messageStatus = -1

\* C23 (as stated): the status a send was given holds 0, 1 or -1 only, and
\* a caller that compares it with -1 sees every transfer that failed.
C23_StatusValues_AsStated ==
    \A d \in Dev :
        /\ dev[d].status \in {0, 1, -1}
        /\ ghost[d].sendSeq \in ghost[d].aborted => FailureObserved(dev[d].status)

\* the fragments of X that wait in the receive FIFO of Y
InFlight == Len(radio["Y"].fifo)

\* C25 (as stated): the call of sendMsg / sendMsgToAddr emits no fragment,
\* and a loop() tick emits at most one.
C25_OneFragmentPerTick_AsStated ==
    [][/\ env'.calls # env.calls => InFlight' <= InFlight
       /\ InFlight' <= InFlight + 1]_vars


\* the packets of a sequence that carry transfer number seq of device d
RECURSIVE PacketsOf(_, _, _)
PacketsOf(pkts, d, seq) ==
    IF pkts = <<>> THEN <<>>
    ELSE (IF pkts[1].tag.from = d /\ pkts[1].tag.seq = seq THEN <<pkts[1]>> ELSE <<>>)
            \o PacketsOf(Tail(pkts), d, seq)

\* the fragments of transfer number seq of X that reached Y, in the order
\* of their emission: those Y has reassembled or is reassembling, then
\* those that wait in its receive FIFO
EmittedTo(seq) ==
    LET done == {k \in 1..Len(ghost["Y"].deposits) :
                    PacketsOf(ghost["Y"].deposits[k].pkts, "X", seq) # <<>>}
    IN  IF done # {}
        THEN ghost["Y"].deposits[CHOOSE k \in done : TRUE].pkts
        ELSE PacketsOf(ghost["Y"].rxPkts, "X", seq)
                \o PacketsOf(radio["Y"].fifo, "X", seq)

\* the k-th fragment (from 0) of a message as the header law gives it
LawFragment(wire, k) ==
    LET M == Len(wire)
        F == (M + PAYLOAD_SIZE - 1) \div PAYLOAD_SIZE
        index == F - 1 - k
    IN  pad(<<IF k = 0 THEN START_CODE ELSE CONTINUE_CODE,
              index % 256, index \div 256>>
               \o Slice(wire, k * PAYLOAD_SIZE, Min((k + 1) * PAYLOAD_SIZE, M)),
            MAX_PACKET_SIZE)

\* C24: of the message X submitted last to Y, of M > 0 bytes on the wire
\* and F = ceil(M / 29) fragments, the fragments emitted so far are the
\* first ones the law gives -- the k-th has code 'M' for k = 0 and 'C'
\* otherwise, index F - 1 - k, and the bytes k * 29 .. min((k + 1) * 29, M)
\* of the message -- and when the transfer has completed exactly F were
\* emitted.
C24_FragmentHeaderLaw ==
    LET seq == ghost["X"].sendSeq
    IN  (seq >= 1 /\ ghost["X"].sent[seq].addr = PairingAddrOf("Y")
                  /\ ghost["X"].sent[seq].wire # <<>>)
            => LET wire == ghost["X"].sent[seq].wire
                   F == (Len(wire) + PAYLOAD_SIZE - 1) \div PAYLOAD_SIZE
                   E == EmittedTo(seq)
               IN  /\ Len(E) <= F
                   /\ \A k \in 0..(Len(E) - 1) : E[k + 1].data = LawFragment(wire, k)
                   /\ (dev["X"].currentState = "IDLE" /\ seq \notin ghost["X"].aborted)
                         => Len(E) = F

\* the five fragments of an encrypted message have been emitted and the
\* transfer is complete
C24_Witness ==
    /\ ghost["X"].sendSeq >= 1
    /\ ghost["X"].sent[ghost["X"].sendSeq].addr = PairingAddrOf("Y")
    /\ ghost["X"].sent[ghost["X"].sendSeq].encryption
    /\ Len(EmittedTo(ghost["X"].sendSeq)) = 5
    /\ dev["X"].currentState = "IDLE"
    /\ dev["X"].status = 1


\* ------------------------------------------------------------------------
\* Further statements on SpecData
\* ------------------------------------------------------------------------
\* the sequence a starts with the sequence b
Extends(a, b) == Len(a) >= Len(b) /\ SubSeq(a, 1, Len(b)) = b

\* a partial message older than RECEIVE_TIMEOUT waits in the buffer of d
StalePartial(d) ==
    /\ Ready(d)
    /\ dev[d].rxBuffer # <<>>
    /\ now - dev[d].lastReceiveTime > RECEIVE_TIMEOUT

\* C26 (as stated): when a partial message older than RECEIVE_TIMEOUT waits
\* in the buffer, the next loop() tick in IDLE discards it.  With no packet
\* available the buffer is empty and the two counters are 0 after the tick;
\* with a packet available the fragments of the old partial message are in
\* no message that is being reassembled or was deposited by the tick.
C26_ReassemblyTimeout_AsStated ==
    \A d \in Dev :
        StalePartial(d)
            => \A ub \in UbOutcomes :
                  LET w == loop(World, d, 0, ub)
                      deps == w.ghost[d].deposits
                  IN  IF ~available(World, d)
                      THEN /\ w.dev[d].rxBuffer = <<>>
                           /\ w.dev[d].expectedFragments = 0
                           /\ w.dev[d].receivedFragments = 0
                      ELSE /\ ~Extends(w.ghost[d].rxPkts, ghost[d].rxPkts)
                           /\ Len(deps) > Len(ghost[d].deposits)
                                 => ~Extends(deps[Len(deps)].pkts, ghost[d].rxPkts)


\* ------------------------------------------------------------------------
\* Further statements on SpecPair
\* ------------------------------------------------------------------------
\* C27: a device goes from PAIRING_LISTEN to PAIRING_TRANSMIT only without
\* a peer public key and more than PAIRING_LISTEN_TIME after its
\* startPairing; a device in PAIRING_LISTEN that has a peer public key
\* keeps it while it listens and does not go to PAIRING_TRANSMIT; a device
\* in PAIRING_TRANSMIT does not go to PAIRING_LISTEN.
C27_ListenToTransmitFlip ==
    [][\A d \in Dev :
          /\ (dev[d].currentState = "PAIRING_LISTEN"
                /\ dev'[d].currentState = "PAIRING_TRANSMIT")
                => /\ ~dev[d].gotPubKey
                   /\ ~dev'[d].gotPubKey
                   /\ now - env.startAt[d] > PAIRING_LISTEN_TIME
          /\ (dev[d].currentState = "PAIRING_LISTEN" /\ dev[d].gotPubKey)
                => /\ dev'[d].currentState # "PAIRING_TRANSMIT"
                   /\ dev'[d].currentState = "PAIRING_LISTEN" => dev'[d].gotPubKey
          /\ dev[d].currentState = "PAIRING_TRANSMIT"
                => dev'[d].currentState # "PAIRING_LISTEN"]_vars

\* X has gone to PAIRING_TRANSMIT; Y, which received the key of X, is still
\* in PAIRING_LISTEN more than PAIRING_LISTEN_TIME after its startPairing
C27_Witness ==
    /\ dev["X"].currentState = "PAIRING_TRANSMIT"
    /\ dev["Y"].currentState = "PAIRING_LISTEN"
    /\ dev["Y"].gotPubKey
    /\ env.started["Y"]
    /\ now - env.startAt["Y"] > PAIRING_LISTEN_TIME

\* ------------------------------------------------------------------------
\* SpecStray: the handshake of SpecPair, with one more device pairing within
\* range.  The configuration addresses CFGTX and CFGRX are the same for every
\* device, so the public-key packet that the other device writes also reaches
\* X or Y while it waits, in step 3 of Listen or step 4 of Transmit, for its
\* peer's encrypted pairing address.
\* ------------------------------------------------------------------------
MaxStrays == 1

\* the 32-byte public-key packet of the other device
StrayKeyPacket == pad(KeyBytes(X25519Public(7)), MAX_PACKET_SIZE)

\* d has sent its own frame and waits for the encrypted address of its peer
AwaitsAddress(d) ==
    /\ InPairing(d)
    /\ dev[d].gotPubKey
    /\ ~dev[d].gotAck
    /\ IF dev[d].currentState = "PAIRING_LISTEN" THEN dev[d].sentPubKey
       ELSE dev[d].sentAck

StrayKey(d) ==
    /\ env.replays < MaxStrays
    /\ AwaitsAddress(d)
    /\ radio[d].listening
    /\ radio[d].readPipe[1] \in {CFGTX, CFGRX}
    /\ radio[d].fifo = <<>>
    /\ radio' = [radio EXCEPT ![d].fifo =
                    Append(@, [pipe |-> 1, data |-> StrayKeyPacket, tag |-> NoTag])]
    /\ env' = [env EXCEPT !.replays = @ + 1]
    /\ UNCHANGED <<dev, ghost, now, cha, chaLog>>

NextStray ==
    \/ \E d \in Dev : PairStart(d)
    \/ \E d \in Dev : PairLoop(d)
    \/ PairAdvance
    \/ \E d \in Dev : StrayKey(d)

SpecStray == InitPair /\ [][NextStray]_vars

\* the frame that d's next loop() reads in step 3 of Listen or step 4 of
\* Transmit does not decrypt to a valid Address
InvalidFrameAtHead(d) ==
    /\ AwaitsAddress(d)
    /\ available(World, d)
    /\ ~checkValidAddr(decryptToStr(dev[d].tempCha,
                                    unpad(readPacket(World, d).data)).out)

PairingFlags(r) == <<r.gotPubKey, r.sentPubKey, r.gotAck, r.sentAck>>

\* C28 (as stated): a loop() that reads, in step 3 of Listen or step 4 of
\* Transmit, a frame whose decryption is not a valid Address leaves the
\* pairing flags, the directory and the receive counter of the temporary
\* cipher as they were, so a valid frame that arrives later is still
\* accepted.
C28_InvalidFrameIgnored_AsStated ==
    [][\A d \in Dev :
          (InvalidFrameAtHead(d) /\ ~env.ticked[d] /\ env'.ticked[d])
              => /\ PairingFlags(dev'[d]) = PairingFlags(dev[d])
                 /\ dev'[d].pairedDevices = dev[d].pairedDevices
                 /\ dev'[d].tempCha.decryptCounter = dev[d].tempCha.decryptCounter]_vars

\* the part of C28 that the code does keep: flags and directory are untouched
InvalidFrameKeepsFlags ==
    [][\A d \in Dev :
          (InvalidFrameAtHead(d) /\ ~env.ticked[d] /\ env'.ticked[d])
              => /\ PairingFlags(dev'[d]) = PairingFlags(dev[d])
                 /\ dev'[d].pairedDevices = dev[d].pairedDevices]_vars

\* ------------------------------------------------------------------------
\* SpecLost: the handshake of X and Y, one calling startPairing LostTick
\* milliseconds after the other, both running loop() every LostTick
\* milliseconds.  The directory of X is empty, or its five slots hold five
\* other devices; the directory of Y is empty.  Once, the application of a
\* device that has sent its encrypted pairing address to a peer that is
\* still pairing may call enable(false): from then on that device neither
\* listens nor answers.  The applications make their calls and the clock
\* advances (weak fairness).
\* ------------------------------------------------------------------------
MaxDisables == 1
LostTick == 250

\* X with "1GGGG", "1CCCC", "1DDDD", "1EEEE", "1FFFF" in its five slots
BegunFull ==
    FillDirectory(setPairedAddr(Begun, "X", OtherAddr(5), 0, FALSE, 0).w, "X", 1)

InitLost ==
    /\ \E w \in {Begun, BegunFull} : InitWorld(w)
    /\ \E first \in Dev :
          env = [NoEnv EXCEPT !.startAt =
                    [d \in Dev |-> IF d = first THEN 0 ELSE LostTick]]
    /\ cha = [c \in ChaNames |-> SimpleCha2(0)]
    /\ chaLog = NoChaLog

PairDisable(d) ==
    /\ env.replays < MaxDisables
    /\ InPairing(d)
    /\ dev[d].isEnabled
    /\ dev[d].sentAck
    /\ InPairing(Peer(d))
    /\ SetWorld(enable(World, d, FALSE))
    /\ env' = [env EXCEPT !.replays = @ + 1]
    /\ UNCHANGED <<now, cha, chaLog>>

\* the clock advances when both have run loop(), until every device that
\* is still enabled has ended its session
LostAdvance ==
    /\ \A d \in Dev : env.ticked[d]
    /\ now < MaxPairTime
    /\ \E d \in Dev : ~env.started[d] \/ (dev[d].isEnabled /\ InPairing(d))
    /\ now' = now + LostTick
    /\ env' = [env EXCEPT !.ticked = [d \in Dev |-> FALSE]]
    /\ UNCHANGED <<dev, radio, ghost, cha, chaLog>>

NextLost ==
    \/ \E d \in Dev : PairStart(d)
    \/ \E d \in Dev : PairLoop(d)
    \/ LostAdvance
    \/ \E d \in Dev : PairDisable(d)

\* loop() of d runs in this step; the application of d calls startPairing
\* in this step
LoopOf(d) == ~env.ticked[d] /\ env'.ticked[d]
StartOf(d) == ~env.started[d] /\ env'.started[d]

\* what enables PairLoop(d) and PairStart(d)
LoopDue(d) == ~env.ticked[d] /\ (env.startAt[d] = now => env.started[d])
StartDue(d) == ~env.started[d] /\ env.startAt[d] = now

\* Weak fairness of the clock, and of PairLoop(d) and PairStart(d) written
\* with their enabling conditions: a call that is due is made.
SpecLost ==
    /\ InitLost
    /\ [][NextLost]_vars
    /\ WF_vars(LostAdvance)
    /\ \A d \in Dev :
          /\ []<>(~LoopDue(d)) \/ []<><<LoopOf(d)>>_vars
          /\ []<>(~StartDue(d)) \/ []<><<StartOf(d)>>_vars

\* no step of handlePairing returns and the test after the switch ends the
\* session
EndsByTimeout(d) ==
    LET s == PairingSteps(World, d, 0)
    IN  ~s.ret /\ PairingTimeout(s, d).ret

\* the Address that step 3 of Listen or step 4 of Transmit is about to read
HeadAddr(d) == decryptToStr(dev[d].tempCha, unpad(readPacket(World, d).data)).out

\* the session ends on the frame read: an unpair request or reply for a UID
\* that is in no slot, a reply other than '0' to the own unpair request, or
\* a new peer when no slot is free
EndsByAbort(d) ==
    /\ AwaitsAddress(d)
    /\ available(World, d)
    /\ checkValidAddr(HeadAddr(d))
    /\ LET unknown == ~clearPairedUID(World, d, Slice(HeadAddr(d), 1, 5)).ok
           unpair == Slice(HeadAddr(d), 0, 1) = <<48>>
       IN  IF dev[d].currentState = "PAIRING_LISTEN"
           THEN unknown /\ (unpair \/ dev[d].pairingChannel >= MAX_CHANNELS)
           ELSE (unpair /\ unknown) \/ (~unpair /\ dev[d].isUnpairReq)

\* C29 (as stated): when a pairing session of a device ends by the timeout,
\* by an unpair request for a UID that is not in its directory, by a reply
\* other than an unpair to its own unpair request, or for lack of a free
\* slot, the state is IDLE and every slot of its directory (address, keys,
\* mailbox) is as it was when startPairing was called.
C29_AbortChangesNoSlot_AsStated ==
    [][\A d \in Dev :
          (/\ LoopOf(d)
           /\ InPairing(d)
           /\ dev[d].isEnabled
           /\ EndsByTimeout(d) \/ EndsByAbort(d))
              => /\ dev'[d].currentState = "IDLE"
                 /\ dev'[d].pairedDevices = env.slotsAtStart[d]]_vars

\* the sessions that end on the frame read do leave the directory alone
AbortChangesNoSlot ==
    [][\A d \in Dev :
          (LoopOf(d) /\ InPairing(d) /\ dev[d].isEnabled /\ EndsByAbort(d))
              => /\ dev'[d].currentState = "IDLE"
                 /\ dev'[d].pairedDevices = env.slotsAtStart[d]]_vars

\* the reading pipes 1..5 are open on String(i + 1) + radioID, none on a
\* configuration address, on the data channel, and the radio listens
PipesOnData(r, rd) ==
    /\ \A i \in Channels : rd.readPipe[i + 1] = InitPipeAddr(r, i)
    /\ rd.readPipe[1] \notin {CFGTX, CFGRX}
    /\ rd.channel = DATA_CHANNEL
    /\ rd.listening

\* C30: a device in PAIRING_LISTEN or PAIRING_TRANSMIT that stays enabled
\* eventually is in IDLE again, whatever its peer does; and every step that
\* takes a device from a pairing state to IDLE leaves reading pipes 1..5
\* open on the data addresses and the radio listening.
C30_PairingTerminates ==
    /\ \A d \in Dev :
          (InPairing(d) /\ dev[d].isEnabled)
              ~> (dev[d].currentState = "IDLE" \/ ~dev[d].isEnabled)
    /\ [][\A d \in Dev :
             (InPairing(d) /\ dev'[d].currentState = "IDLE")
                 => PipesOnData(dev'[d], radio'[d])]_vars

\* a device was disabled in the middle of its session and stays in its
\* pairing state; another, still enabled, is back in IDLE after its timeout
\* with its pipes on the data addresses
C30_Witness ==
    /\ \E d \in Dev : ~dev[d].isEnabled /\ InPairing(d)
    /\ \E d \in Dev :
          /\ env.started[d]
          /\ dev[d].isEnabled
          /\ dev[d].currentState = "IDLE"
          /\ now > env.startAt[d] + PAIRING_TIMEOUT
          /\ PipesOnData(dev[d], radio[d])

\* ------------------------------------------------------------------------
\* SpecReload: the transfers of SpecSend on the paired devices, where the
\* application of X may also, at any moment and at most MaxReloads times,
\* give its directory back to the library with
\* setPairedDevicesJson(getPairedDevicesJson()).
\* ------------------------------------------------------------------------
MaxReloads == 1

\* the messages of one, two and five fragments
ReloadMsgs == {<<1>>, Long30, Long5}

ReloadDirectory(d) ==
    /\ env.replays < MaxReloads
    /\ SetWorld(setPairedDevicesJson(World, d, getPairedDevicesJson(dev[d], TRUE)))
    /\ env' = [env EXCEPT !.replays = @ + 1]
    /\ UNCHANGED <<now, cha, chaLog>>

NextReload ==
    \/ \E m \in ReloadMsgs, e \in BOOLEAN : SendMsg("X", m, e)
    \/ \E d \in Dev : AppLoop(d)
    \/ ReloadDirectory("X")

SpecReload == InitData /\ [][NextReload]_vars

\* the next loop() of d calls radio.available()
Polls(d) ==
    /\ dev[d].isEnabled
    /\ ~dev[d].crashed
    /\ dev[d].currentState \in {"IDLE", "PAIRING_LISTEN", "PAIRING_TRANSMIT"}

\* no write was made while the own radio was listening, and a device about
\* to poll its radio has called startListening since its last write
WritesBracketed ==
    \A d \in Dev :
        /\ ~ghost[d].wroteListening
        /\ Polls(d) => ~ghost[d].unheard

\* C31 (as stated): every radio write, of a data fragment or of a pairing
\* frame, is made while the radio is not listening, and after the write
\* sequence ends startListening is called before the radio is polled again.
C31_ListenBracket_AsStated == WritesBracketed

\* ------------------------------------------------------------------------
\* SpecWrap: the encrypt counter of SimpleCha2 at its full width.  The
\* uint32_t is kept as the four little-endian bytes that createNonce copies
\* into the nonce; the objects A and B hold a key and a counter that a run
\* of encrypt calls since the last setKey has reached.  encrypt and setKey
\* are called in any order.
\* ------------------------------------------------------------------------
MaxWrapCalls == 4

\* ++encryptCounter on a uint32_t, on its bytes
Increment32(b) ==
    IF b[1] < 255 THEN <<b[1] + 1, b[2], b[3], b[4]>>
    ELSE IF b[2] < 255 THEN <<0, b[2] + 1, b[3], b[4]>>
    ELSE IF b[3] < 255 THEN <<0, 0, b[3] + 1, b[4]>>
    ELSE IF b[4] < 255 THEN <<0, 0, 0, b[4] + 1>>
    ELSE <<0, 0, 0, 0>>

\* a < b for two uint32_t given by their bytes
Less32(a, b) ==
    \E i \in 1..COUNTER_SIZE :
        /\ a[i] < b[i]
        /\ \A j \in (i + 1)..COUNTER_SIZE : a[j] = b[j]

Zero32 == Fill(COUNTER_SIZE, 0)

\* counters reached by 0, 255, 65 535, 2^32 - 2 and 2^32 - 1 encrypt calls
WrapCounters ==
    {Zero32, <<255, 0, 0, 0>>, <<255, 255, 0, 0>>,
     <<254, 255, 255, 255>>, <<255, 255, 255, 255>>}

\* SimpleCha2::encrypt with the counter at its width
encrypt32(c, plaintext, seed) ==
    LET counter == Increment32(c.encryptCounter)
        nonce   == generateIV(seed) \o counter
    IN  [cha |-> [c EXCEPT !.encryptCounter = counter],
         out |-> nonce \o ChaChaXor(c.key, nonce, plaintext)]

\* SimpleCha2::setKey with the counters at their width
setKey32(c, newKey) ==
    [key |-> newKey, encryptCounter |-> Zero32, decryptCounter |-> Zero32]

InitWrap ==
    /\ InitWorld(Constructed)
    /\ env = NoEnv
    /\ \E b \in WrapCounters :
          cha = [c \in ChaNames |->
                    [key |-> 17, encryptCounter |-> b, decryptCounter |-> Zero32]]
    /\ chaLog = NoChaLog

\* c.encrypt(x): the counter bytes of the nonce returned are logged
WrapEncrypt(c, x, seed) ==
    /\ chaLog.calls < MaxWrapCalls
    /\ LET e == encrypt32(cha[c], x, seed)
       IN  /\ cha' = [cha EXCEPT ![c] = e.cha]
           /\ chaLog' = [chaLog EXCEPT
                           !.subs = Append(@, [ch |-> c,
                                               counter |-> Slice(e.out, IV_SIZE, NONCE_SIZE)]),
                           !.calls = @ + 1]
    /\ UNCHANGED <<dev, radio, now, ghost, env>>

\* setKey(k) on both objects: a new epoch, the history starts again
WrapSetKey(k) ==
    /\ chaLog.calls < MaxWrapCalls
    /\ cha' = [c \in ChaNames |-> setKey32(cha[c], k)]
    /\ chaLog' = [NoChaLog EXCEPT !.calls = chaLog.calls + 1,
                                  !.issued = {"setKey"}]
    /\ UNCHANGED <<dev, radio, now, ghost, env>>

NextWrap ==
    \/ \E c \in ChaNames, x \in ChaPlaintexts, seed \in 0..MaxChaSeed :
          WrapEncrypt(c, x, seed)
    \/ \E k \in ChaKeys : WrapSetKey(k)

SpecWrap == InitWrap /\ [][NextWrap]_vars

\* the logged encrypt calls of object c, in order
CountersOf(c) == SelectSeq(chaLog.subs, LAMBDA e : e.ch = c)

\* C32 (as stated): between two setKey calls the counters embedded in the
\* nonces of successive encrypt outputs of an object are strictly
\* increasing, for every number of encrypt calls, the first after a setKey
\* being 1.
C32_SenderCounterMonotonic_AsStated ==
    \A c \in ChaNames :
        LET seq == CountersOf(c)
        IN  /\ \A k \in 1..(Len(seq) - 1) : Less32(seq[k].counter, seq[k + 1].counter)
            /\ (chaLog.issued # {} /\ seq # <<>>) => seq[1].counter = <<1, 0, 0, 0>>

\* below the wrap the counters are strictly increasing
MonotonicBelowWrap ==
    \A c \in ChaNames :
        LET seq == CountersOf(c)
        IN  \A k \in 1..(Len(seq) - 1) :
                seq[k].counter # Fill(COUNTER_SIZE, 255)
                    => Less32(seq[k].counter, seq[k + 1].counter)

\* ------------------------------------------------------------------------
\* Further statements on SpecDir
\* ------------------------------------------------------------------------
\* C33 (as stated): in every reachable state every slot whose addr is empty
\* has an all-zero publicKey, an all-zero sharedKey and an empty mailbox.
C33_FreeSlotZeroed_AsStated ==
    \A d \in Dev : \A i \in Channels :
        dev[d].pairedDevices[i].addr = <<>>
            => /\ dev[d].pairedDevices[i].publicKey = 0
               /\ dev[d].pairedDevices[i].sharedKey = 0
               /\ dev[d].pairedDevices[i].mailbox = <<>>

\* C37 (as stated): in every reachable state, for every slot, the key held
\* by the slot's chaObject equals the slot's stored sharedKey.
C37_KeyCoherence_AsStated ==
    \A d \in Dev : \A i \in Channels :
        dev[d].pairedDevices[i].chaObject.key = dev[d].pairedDevices[i].sharedKey


\* ------------------------------------------------------------------------
\* A pairing session of X while the paired peer Y sends data: X holds
\* another device in slot 0 and Y in slot 1, Y holds X's address for slot 1
\* ("2AAAA") in slot 0, as the handshake of Y with X's slot 1 leaves them.
\* ------------------------------------------------------------------------
BusyMsgs == {<<1>>, Long30}

PairedSecond ==
    LET w1 == setPairedAddr(Begun, "X", OtherAddr(5), 0, FALSE, 0).w
        w2 == setPairedAddr(w1, "X", PairingAddrOf("Y"), 1, TRUE,
                            X25519Public(PrivateKeyOf("Y"))).w
        w3 == setPairedAddr(w2, "Y", InitPipeAddr(w2.dev["X"], 1), 0, TRUE,
                            X25519Public(PrivateKeyOf("X"))).w
    IN  initRadio(initRadio(w3, "X"), "Y")

\* X calls startPairing at 0, Y never does
InitBusy ==
    /\ InitWorld(PairedSecond)
    /\ env = [NoEnv EXCEPT !.startAt = [d \in Dev |-> IF d = "X" THEN 0 ELSE 0 - 1]]
    /\ cha = [c \in ChaNames |-> SimpleCha2(0)]
    /\ chaLog = NoChaLog

\* the clock advances when both have run loop(), until X's session ended
BusyAdvance ==
    /\ \A d \in Dev : env.ticked[d]
    /\ now < MaxPairTime
    /\ ~env.started["X"] \/ InPairing("X")
    /\ now' = now + LostTick
    /\ env' = [env EXCEPT !.ticked = [d \in Dev |-> FALSE]]
    /\ UNCHANGED <<dev, radio, ghost, cha, chaLog>>

NextBusy ==
    \/ PairStart("X")
    \/ \E d \in Dev : PairLoop(d)
    \/ \E m \in BusyMsgs, e \in BOOLEAN : SendMsg("Y", m, e)
    \/ BusyAdvance

SpecBusy == InitBusy /\ [][NextBusy]_vars

\* C34: while a device is in PAIRING_LISTEN or PAIRING_TRANSMIT, every
\* packet its step takes from the receive FIFO arrived on the configuration
\* pipe (pipe 1, opened on "CFGTX" or "CFGRX") and is no data fragment of a
\* paired peer.
C34_PairingReadsConfigPipeOnly_AsStated ==
    [][\A d \in Dev :
          (InPairing(d) /\ Len(radio'[d].fifo) < Len(radio[d].fifo))
              => /\ radio[d].fifo[1].pipe = 1
                 /\ radio[d].fifo[1].tag.from = ""]_vars


\* ------------------------------------------------------------------------
\* Two paired peers send to X at the same time: Y (slot 0, pipe 1) through
\* its own sendMsg and loop(), and a third device Z paired in slot 1 of X,
\* whose fragments reach X on pipe 2 ("2AAAA").
\* ------------------------------------------------------------------------
\* the two-fragment cleartext message of Z
ThirdMsg == Fill(PAYLOAD_SIZE, 90) \o <<91>>
TwoMsgs == {<<1>>, Long30}

\* the k-th fragment (from 0) that sendData of Z writes for ThirdMsg
ThirdFragment(k) ==
    LET msgSize == Len(ThirdMsg)
        offset == k * PAYLOAD_SIZE
        packetSize == Min(PAYLOAD_SIZE, msgSize - offset)
        code == IF offset = 0 THEN START_CODE ELSE CONTINUE_CODE
        index == FragmentIndex(msgSize, offset) % 65536
    IN  [pipe |-> 2,
         data |-> pad(HeaderBytes(code, index)
                      \o Slice(ThirdMsg, offset, offset + packetSize),
                      MAX_PACKET_SIZE),
         tag |-> [from |-> "Z", seq |-> 1, frag |-> k, replay |-> FALSE]]

InitTwo ==
    /\ InitWorld(initRadio(PairedFull, "X"))
    /\ env = NoEnv
    /\ cha = [c \in ChaNames |-> SimpleCha2(0)]
    /\ chaLog = NoChaLog

\* the next fragment of Z is acknowledged by X's radio on pipe 2
ThirdSends ==
    /\ env.replays < NumFragments(Len(ThirdMsg))
    /\ radio["X"].listening
    /\ Len(radio["X"].fifo) < RX_FIFO_SIZE
    /\ radio["X"].readPipe[2] = InitPipeAddr(dev["X"], 1)
    /\ radio' = [radio EXCEPT !["X"].fifo = Append(@, ThirdFragment(env.replays))]
    /\ env' = [env EXCEPT !.replays = @ + 1]
    /\ UNCHANGED <<dev, now, ghost, cha, chaLog>>

NextTwo ==
    \/ \E m \in TwoMsgs, e \in BOOLEAN : SendMsg("Y", m, e)
    \/ \E d \in Dev : AppLoop(d)
    \/ ThirdSends

SpecTwo == InitTwo /\ [][NextTwo]_vars

\* C35: every message deposited in the mailbox of slot i was reassembled
\* only from fragments received on pipe i + 1; a fragment received on
\* another pipe is never part of it and never completes it.
C35_ReassemblyPerSender_AsStated ==
    \A d \in Dev : \A k \in 1..Len(ghost[d].deposits) :
        \A j \in 1..Len(ghost[d].deposits[k].pkts) :
            ghost[d].deposits[k].pkts[j].pipe = ghost[d].deposits[k].channel + 1


\* ------------------------------------------------------------------------
\* Further statements on SpecData
\* ------------------------------------------------------------------------
\* the deposit was reassembled from fragments of one message that its
\* sender submitted with encrypt = false
CleartextDeposit(dp) ==
    /\ dp.pkts # <<>>
    /\ dp.pkts[1].tag.from \in Dev
    /\ \A j \in 1..Len(dp.pkts) :
          /\ dp.pkts[j].tag.from = dp.pkts[1].tag.from
          /\ dp.pkts[j].tag.seq = dp.pkts[1].tag.seq
    /\ ~ghost[dp.pkts[1].tag.from].sent[dp.pkts[1].tag.seq].encryption

\* C36: a message sent with encrypt = false is deposited with exactly the
\* bytes that were reassembled, and the step that deposits it leaves the
\* receive counter of the slot's secure channel unchanged.
C36_CleartextDelivery_AsStated ==
    [][\A d \in Dev :
          Len(ghost'[d].deposits) > Len(ghost[d].deposits)
              => LET dp == ghost'[d].deposits[Len(ghost'[d].deposits)]
                 IN  CleartextDeposit(dp)
                        => /\ dp.stored = dp.rx
                           /\ dev'[d].pairedDevices[dp.channel].chaObject.decryptCounter
                                = dev[d].pairedDevices[dp.channel].chaObject.decryptCounter]_vars


\* ------------------------------------------------------------------------
\* One pairing session over a radio that stops delivering: from some moment
\* on no packet is received or acknowledged, every radio.write returns
\* false.
\* ------------------------------------------------------------------------
MaxOutages == 1

InitFade ==
    /\ InitWorld(Begun)
    /\ \E first \in Dev :
          env = [NoEnv EXCEPT !.startAt =
                    [d \in Dev |-> IF d = first THEN 0 ELSE LostTick]]
    /\ cha = [c \in ChaNames |-> SimpleCha2(0)]
    /\ chaLog = NoChaLog

LinkUp == env.replays = 0

\* the link is lost while the session runs
LinkDown ==
    /\ env.replays < MaxOutages
    /\ BothStarted
    /\ \E d \in Dev : InPairing(d)
    /\ env' = [env EXCEPT !.replays = @ + 1]
    /\ UNCHANGED <<dev, radio, now, ghost, cha, chaLog>>

\* loop() of d, once per clock value; with the link down nobody hears d
FadeLoop(d) ==
    /\ ~env.ticked[d]
    /\ env.startAt[d] = now => env.started[d]
    /\ \E seed \in IvSeeds, ub \in UbOutcomes :
          LET heard == [World EXCEPT !.radio[Peer(d)].listening = @ /\ LinkUp]
              after == loop(heard, d, seed, ub)
          IN  SetWorld([after EXCEPT !.radio[Peer(d)].listening =
                                        radio[Peer(d)].listening])
    /\ env' = [env EXCEPT !.ticked[d] = TRUE]
    /\ UNCHANGED <<now, cha, chaLog>>

NextFade ==
    \/ \E d \in Dev : PairStart(d)
    \/ \E d \in Dev : FadeLoop(d)
    \/ LinkDown
    \/ PairAdvance

SpecFade == InitFade /\ [][NextFade]_vars

\* C38: once both devices are back in IDLE after one pairing session with
\* each other, X has Y's UID in a slot if and only if Y has X's UID in a
\* slot.
C38_SymmetricOutcome_AsStated ==
    (BothStarted /\ BothIdle)
        => (SlotsOfPeer("X") # {} <=> SlotsOfPeer("Y") # {})


\* this step is a loop() of d in IDLE that hands the packet at the head of
\* the receive FIFO to receiveData
ReceiveStep(d) ==
    /\ dev[d].currentState = "IDLE"
    /\ dev[d].isEnabled
    /\ ~dev[d].crashed
    /\ available(World, d)
    /\ \E ub \in UbOutcomes :
          [dev |-> dev', radio |-> radio', now |-> now', ghost |-> ghost']
              = loop(World, d, 0, ub)

\* C39: whenever receiveData copies the header out of a packet and appends
\* its payload range, the packet still holds HEADER_SIZE bytes or more
\* after unpad.
C39_FullHeader_AsStated ==
    [][\A d \in Dev :
          ReceiveStep(d) => Len(unpad(readPacket(World, d).data)) >= HEADER_SIZE]_vars


\* ------------------------------------------------------------------------
\* Further statements on SpecPair
\* ------------------------------------------------------------------------
\* both devices are in PAIRING_TRANSMIT without a key from the other and
\* the session of each has reached its timeout
BothTransmitToTimeout ==
    \A d \in Dev :
        /\ dev[d].currentState = "PAIRING_TRANSMIT"
        /\ ~dev[d].gotPubKey
        /\ now - dev[d].pairingStartTime >= PAIRING_TIMEOUT

\* C40: for every start offset from 0 to PAIRING_LISTEN_TIME, once both
\* devices are back in IDLE each has the other installed, and the two are
\* never both in PAIRING_TRANSMIT until their timeouts.
C40_PairsForEveryOffset_AsStated ==
    /\ (BothStarted /\ BothIdle) => \A d \in Dev : SlotsOfPeer(d) # {}
    /\ ~BothTransmitToTimeout

====
